---- MODULE Spec2Model ----
(***************************************************************************)
(* Catalog reconciliation of ViniPlay's VOD processor                      *)
(* (src/vodProcessor.js, with the provider client of src/unnamed/part_000).*)
(*                                                                         *)
(* One action of the model is one resumption of the async function         *)
(* refreshVodContent: the awaited call completes (its effect on the store  *)
(* or the value it returns) and the synchronous code that follows runs up  *)
(* to the next await.  The store is one SQLite connection: a single        *)
(* transaction at a time, writes outside a transaction are committed at    *)
(* once, ROLLBACK restores the contents as of BEGIN.                       *)
(***************************************************************************)
EXTENDS Integers, Sequences, FiniteSets, TLC

VARIABLES
    db,      \* contents of the store as seen on the connection
    tx,      \* the connection's transaction: [active, snap]
    run,     \* per provider: the locals of its refreshVodContent call
    now,     \* wall clock, in scan timestamps handed out so far
    runs,    \* number of refreshVodContent calls started
    faults,  \* number of failures the environment has injected
    tz,      \* the host's UTC offset, in hours
    scope,   \* the deployment: its providers, how many calls are made,
             \* whether the provider's listings stay the same between calls,
             \* and whether a call may start while another is in flight
    prev,    \* per provider: the store as its last settled call left it
    issued   \* history: every (kind, provider-unique id, row id) inserted

vars == <<db, tx, run, now, runs, faults, tz, scope, prev, issued>>

----------------------------------------------------------------------------
(* Bounds of the model *)

MaxRuns == 2       \* calls made in a deployment with two providers
MaxRunsOne == 3    \* calls made in a deployment with one provider
MaxRunsTwice == 2  \* calls made against listings that do not change
MaxFeed == 1
MaxFaults == 1
MaxEpisodes == 1
MaxLines == 3      \* lines of a playlist
MaxRunsM3u == 2    \* calls made in a deployment that also reads playlists
MaxRows == 2       \* rows of a listing, where the order of rows matters
MaxRunsRows == 1   \* calls made against such a listing
MaxKeys == 3       \* rows bound to entities, where only the keys matter

----------------------------------------------------------------------------
(* Values *)

None == "none"       \* JS undefined / null / SQL NULL, where a string stands
NoId == << >>        \* a missing (falsy) stream_id / series_id
NoDate == [y |-> 0, m |-> 0, d |-> 0]   \* a missing releaseDate
NoYear == 0          \* let year = null

ProvA == <<"1">>
ProvB == <<"2">>
Providers == {ProvA, ProvB}

TZOffsets == {-5, 0}

\* Names are strings, modelled as sequences of characters.
NameYear == <<"A", " ", "(", "2", "0", "0", "1", ")">>
NamePlain == <<"H", "e", "a", "t">>

Digits == {"0", "1", "2", "3", "4", "5", "6", "7", "8", "9"}

DigitVal(c) ==
    CASE c = "0" -> 0 [] c = "1" -> 1 [] c = "2" -> 2 [] c = "3" -> 3
      [] c = "4" -> 4 [] c = "5" -> 5 [] c = "6" -> 6 [] c = "7" -> 7
      [] c = "8" -> 8 [] c = "9" -> 9

\* Category rows a provider may return (category_id, category_name).
CatRows ==
    { [category_id |-> "5", category_name |-> "Action"],
      [category_id |-> "5", category_name |-> "Drama"],
      [category_id |-> None, category_name |-> "Misc"] }

\* Movie rows a provider may return.
MovieRows ==
    { [stream_id |-> <<"10">>, name |-> NameYear, releaseDate |-> NoDate,
       plot |-> "p1", icon |-> "i1", container_extension |-> None,
       category_id |-> "5"],
      [stream_id |-> <<"10">>, name |-> NamePlain,
       releaseDate |-> [y |-> 1996, m |-> 1, d |-> 1],
       plot |-> "p2", icon |-> "i1", container_extension |-> "mkv",
       category_id |-> "6"],
      [stream_id |-> NoId, name |-> NamePlain, releaseDate |-> NoDate,
       plot |-> "p1", icon |-> "i1", container_extension |-> None,
       category_id |-> "5"] }

\* Series rows a provider may return (series_id is read as the native id,
\* cover as the icon).
SeriesRows ==
    { [stream_id |-> <<"20">>, name |-> NamePlain, releaseDate |-> NoDate,
       plot |-> "p1", icon |-> "c1", container_extension |-> None,
       category_id |-> "5"],
      [stream_id |-> NoId, name |-> NameYear, releaseDate |-> NoDate,
       plot |-> "p1", icon |-> "c1", container_extension |-> None,
       category_id |-> "5"] }

Kinds == {"movie", "series"}

FeedRows(k) == IF k = "movie" THEN MovieRows ELSE SeriesRows

\* All lists of at most n elements of S.
SeqsUpTo(S, n) == UNION { [1..m -> S] : m \in 0..n }

----------------------------------------------------------------------------
(* Pure helpers of the row loops *)

\* A key that also carries the time of the scan, in unary.
ProviderUniqueIdPerScan(k, providerId, nativeId) ==
    <<k, "_">> \o providerId \o <<"_">> \o nativeId
        \o [i \in 1..now |-> "'"]

\* `movie_${providerId}_${stream_id}` / `series_${providerId}_${series_id}`
ProviderUniqueId(k, providerId, nativeId) ==
    <<k, "_">> \o providerId \o <<"_">> \o nativeId

\* name.match(/\((\d{4})\)/): the position of the first match, 0 if none.
YearMatchAt(name) ==
    LET hits == { i \in 1..(Len(name) - 5) :
                    /\ name[i] = "("
                    /\ \A j \in 1..4 : name[i + j] \in Digits
                    /\ name[i + 5] = ")" }
    IN  IF hits = {} THEN 0 ELSE CHOOSE i \in hits : \A j \in hits : i <= j

\* parseInt(yearMatch[1])
ParseYear(name, i) ==
    1000 * DigitVal(name[i + 1]) + 100 * DigitVal(name[i + 2])
        + 10 * DigitVal(name[i + 3]) + DigitVal(name[i + 4])

\* new Date(releaseDate).getFullYear(): a date-only string is midnight UTC,
\* and getFullYear reads it in the host's time zone.
GetFullYear(date, offset) ==
    IF offset < 0 /\ date.m = 1 /\ date.d = 1 THEN date.y - 1 ELSE date.y

\* The year column of a row.
YearOf(row, offset) ==
    IF row.releaseDate # NoDate THEN GetFullYear(row.releaseDate, offset)
    ELSE IF Len(row.name) > 0 /\ YearMatchAt(row.name) # 0
         THEN ParseYear(row.name, YearMatchAt(row.name))
         ELSE NoYear

DefaultCategory(k) == IF k = "movie" THEN "VOD" ELSE "Series"

\* The lookup without the fallback label.
CategoryNameOfNoDefault(k, categoryMap, row) ==
    LET key == IF row.category_id = None THEN "undefined" ELSE row.category_id
    IN  IF key \in DOMAIN categoryMap THEN categoryMap[key] ELSE ""

\* categoryMap.get(String(category_id)) || 'VOD'
CategoryNameOf(k, categoryMap, row) ==
    LET key == IF row.category_id = None THEN "undefined" ELSE row.category_id
    IN  IF key \in DOMAIN categoryMap THEN categoryMap[key]
        ELSE DefaultCategory(k)

\* The extension passed on as the row has it, without the default.
ExtensionOfNoDefault(k, row) ==
    IF k = "series" THEN None ELSE row.container_extension

\* container_extension || 'mp4' (movie relations only)
ExtensionOf(k, row) ==
    IF k = "series" THEN None
    ELSE IF row.container_extension = None THEN "mp4"
         ELSE row.container_extension

\* A loop that ends at a row without a native id (break for continue).
NextRowStops(rows, i) ==
    IF i <= Len(rows) /\ rows[i].stream_id # NoId THEN i ELSE Len(rows) + 1

\* The first index at or after i of a row the loop does not skip
\* (if (!stream_id) continue), Len + 1 if none.
NextRow(rows, i) ==
    LET ok == { j \in i..Len(rows) : rows[j].stream_id # NoId }
    IN  IF ok = {} THEN Len(rows) + 1
        ELSE CHOOSE j \in ok : \A h \in ok : j <= h

----------------------------------------------------------------------------
(* The catalog store *)

EntKinds == {"movie", "series", "episode"}

EmptyDb ==
    [ cats |-> << >>,                          \* vod_categories: id -> name
      ent  |-> [k \in EntKinds |-> {}],        \* movies, series, episodes
      rel  |-> [k \in EntKinds |-> {}],        \* provider_*_relations
      seq  |-> [k \in EntKinds |-> 0],         \* last row id handed out
      cols |-> [k \in Kinds |-> FALSE] ]       \* provider_unique_id exists

NoTx == [active |-> FALSE, snap |-> EmptyDb]

\* INSERT OR REPLACE in the place of INSERT OR IGNORE.
InsertCategoryOrReplace(d, id, name) ==
    [d EXCEPT !.cats = (id :> name) @@ d.cats]

\* INSERT OR IGNORE INTO vod_categories (category_id, category_name)
InsertCategoryIfAbsent(d, id, name) ==
    IF id \in DOMAIN d.cats THEN d
    ELSE [d EXCEPT !.cats = (id :> name) @@ d.cats]

\* The columns with the category name read from the vod_categories table.
EntityFieldsFromStore(k, categoryMap, row, offset) ==
    LET key == IF row.category_id = None THEN "undefined" ELSE row.category_id
    IN  [ name |-> row.name, year |-> YearOf(row, offset),
          description |-> row.plot, logo |-> row.icon,
          category_name |-> IF key \in DOMAIN db.cats THEN db.cats[key]
                            ELSE DefaultCategory(k) ]

\* The columns both upsert statements write.
EntityFields(k, categoryMap, row, offset) ==
    [ name |-> row.name, year |-> YearOf(row, offset),
      description |-> row.plot, logo |-> row.icon,
      category_name |-> CategoryNameOf(k, categoryMap, row) ]

\* The row id the store generates for an insert into table k: one more than
\* the last id it handed out, so that the id of a deleted row is not reused.
NextRowId(d, k) == d.seq[k] + 1

\* INSERT INTO movies (...) VALUES (...); lastID is d.seq[k] afterwards.
InsertEntity(d, k, f, uid) ==
    LET id == NextRowId(d, k)
    IN  [d EXCEPT !.seq[k] = id,
                  !.ent[k] = @ \cup
                     { [ id |-> id, name |-> f.name, year |-> f.year,
                         description |-> f.description, logo |-> f.logo,
                         category_name |-> f.category_name, uid |-> uid ] }]

\* UPDATE movies SET name, year, description, logo, category_name WHERE id = ?
UpdateEntity(d, k, id, f) ==
    [d EXCEPT !.ent[k] =
        { IF e.id = id
          THEN [e EXCEPT !.name = f.name, !.year = f.year,
                         !.description = f.description, !.logo = f.logo,
                         !.category_name = f.category_name]
          ELSE e : e \in @ }]

\* The uniqueness constraint of a relation table: one row per
\* (provider_id, native id).
SameRelationKey(x, r) == x.provider = r.provider /\ x.native = r.native

\* INSERT OR REPLACE INTO provider_*_relations: the row with the same key,
\* if there is one, is replaced.
UpsertRelation(d, k, r) ==
    [d EXCEPT !.rel[k] = { x \in @ : ~SameRelationKey(x, r) } \cup {r}]

\* The delete without the provider_id test.
DeleteStaleRelationsOfAll(d, k, providerId, before) ==
    [d EXCEPT !.rel[k] = { x \in @ : ~(x.lastSeen < before) }]

\* The stale test written with <= instead of <.
DeleteStaleRelationsInclusive(d, k, providerId, before) ==
    [d EXCEPT !.rel[k] =
        { x \in @ : ~(x.provider = providerId /\ x.lastSeen <= before) }]

\* DELETE FROM provider_*_relations WHERE provider_id = ? AND last_seen < ?
DeleteStaleRelations(d, k, providerId, before) ==
    [d EXCEPT !.rel[k] =
        { x \in @ : ~(x.provider = providerId /\ x.lastSeen < before) }]

\* The orphan deletions without the one of line 235: episodes are left.
DeleteOrphansButEpisodes(d, k) ==
    IF k = "episode" THEN d
    ELSE [d EXCEPT !.ent[k] =
            { e \in @ : e.id \in { x.entity : x \in d.rel[k] } }]

\* DELETE FROM movies WHERE id NOT IN (SELECT DISTINCT movie_id FROM ...)
DeleteOrphans(d, k) ==
    [d EXCEPT !.ent[k] =
        { e \in @ : e.id \in { x.entity : x \in d.rel[k] } }]

\* A map built from a SELECT that returns no row.
IdMapOfNothing(ents) == << >>

\* new Map(existing.map(m => [m.provider_unique_id, m.id])): on a repeated
\* key the row read last (the highest row id) stays.
IdMapOf(ents) ==
    [ u \in { e.uid : e \in ents } |->
        CHOOSE i \in { e.id : e \in { x \in ents : x.uid = u } } :
            \A e \in { x \in ents : x.uid = u } : e.id <= i ]

----------------------------------------------------------------------------
(* The locals of one refreshVodContent call *)

NoBody == [array |-> FALSE, items |-> << >>]

IdleRun ==
    [ pc |-> "idle", kind |-> "none", scanStartTime |-> 0,
      categoryMap |-> << >>, body |-> NoBody, rows |-> << >>, idx |-> 0,
      providerUniqueIdMap |-> << >>, entityId |-> 0, log |-> << >>,
      \* history: the store when the current phase began, and the native
      \* ids of the rows each listing held
      mark |-> EmptyDb, natives |-> [k \in Kinds |-> {}],
      \* processM3uVod: the movies and the series parsed out of the text
      found |-> [movie |-> << >>, series |-> << >>],
      \* history: the playlist text the lists were parsed out of
      text |-> << >> ]

\* The loop locals, dropped at the end of a phase.
Cleared(r) ==
    [r EXCEPT !.body = NoBody, !.rows = << >>, !.idx = 0,
              !.providerUniqueIdMap = << >>, !.entityId = 0]

Ev(ph, ev, arg) == [ph |-> ph, ev |-> ev, arg |-> arg]

\* sendStatus(message, severity)
Status(ph, sev) == Ev(ph, "status", sev)

Logged(p, e) == \E i \in 1..Len(run[p].log) : run[p].log[i] = e

Step(p, r) == run' = [run EXCEPT ![p] = r]

\* The call returned and reported no failure on the way.
RanClean(r) ==
    /\ r.pc = "done"
    /\ \A i \in 1..Len(r.log) : r.log[i].arg \notin {"error", "fail"}

CanFail == faults < MaxFaults

\* sendStatus is the caller's function: in a deployment whose sink is not
\* reliable a call of it may throw.
SinkCanThrow == scope.sink /\ CanFail

\* The exception of a sendStatus call made in phase ph.
SinkThrow(ph) == Ev(ph, "sink", "throw")

Fault == faults' = faults + 1

NoFault == faults' = faults

\* A provider's four listings.
NoPlan == [vodCats |-> NoBody, seriesCats |-> NoBody,
           movie |-> NoBody, series |-> NoBody]

NoPrev == [valid |-> FALSE, ok |-> FALSE, db |-> EmptyDb]

\* A server in time zone z, deployed as sc says, before any call.
InitAt(sc, z) ==
    /\ db = EmptyDb
    /\ tx = NoTx
    /\ run = [p \in Providers |-> IdleRun]
    /\ now = 0
    /\ runs = 0
    /\ faults = 0
    /\ tz = z
    /\ scope = sc
    /\ prev = [p \in Providers |-> NoPrev]
    /\ issued = {}

\* A server on UTC with a sink that returns normally.
InitWith(sc) == InitAt(sc @@ [sink |-> FALSE, overlap |-> FALSE], 0)

\* Two providers, listings that may change from call to call.
Init ==
    InitWith([providers |-> Providers, maxRuns |-> MaxRuns,
              fixed |-> FALSE, plan |-> NoPlan])

\* The same server with a single provider configured.
InitOne ==
    InitWith([providers |-> {ProvA}, maxRuns |-> MaxRunsOne,
              fixed |-> FALSE, plan |-> NoPlan])

----------------------------------------------------------------------------
(* Entry: scan timestamp, credentials, client construction *)

CredCases == {"ok", "missing", "unparsable", "incomplete", "badurl"}

\* Lines 10-33.  A credential error is reported and the call returns; a
\* server value the client's constructor rejects throws out of the call, and
\* so does a sink that throws at line 28, inside the catch block.
StartRun(p, creds) ==
    /\ run[p].pc = "idle"
    /\ scope.overlap \/ \A q \in Providers : run[q].pc = "idle"
    /\ p \in scope.providers
    /\ runs < scope.maxRuns
    /\ runs' = runs + 1
    /\ now' = now + 1
    /\ LET r0 == [IdleRun EXCEPT !.scanStartTime = now + 1, !.mark = db]
       IN  CASE creds = "ok" ->
                  /\ NoFault
                  /\ Step(p, [r0 EXCEPT !.pc = "alterMovies"])
             [] creds = "badurl" ->
                  /\ NoFault
                  /\ Step(p, [r0 EXCEPT !.pc = "crashed",
                                !.log = <<Ev("entry", "throw", "client")>>])
             [] OTHER ->
                  \/ /\ NoFault
                     /\ Step(p, [r0 EXCEPT !.pc = "done",
                                   !.log = <<Status("entry", "error")>>])
                  \/ /\ SinkCanThrow
                     /\ Fault
                     /\ Step(p, [r0 EXCEPT !.pc = "crashed",
                                   !.log = <<SinkThrow("entry")>>])
    /\ UNCHANGED <<db, tx, tz, scope, prev, issued>>

\* The promise of the call settles; its locals are gone.
Return(p) ==
    /\ run[p].pc \in {"done", "crashed"}
    /\ Step(p, IdleRun)
    /\ prev' = IF scope.fixed
               THEN [prev EXCEPT ![p] =
                       [valid |-> TRUE, ok |-> RanClean(run[p]), db |-> db]]
               ELSE prev
    /\ UNCHANGED <<db, tx, now, runs, faults, tz, scope, issued>>

----------------------------------------------------------------------------
(* Schema migration, lines 35-49 *)

\* A migration whose 'duplicate column name' error is reported and ends
\* the call.
AlterTableAborts(p, k, nextPc) ==
    /\ \/ /\ ~db.cols[k]
          /\ db' = [db EXCEPT !.cols[k] = TRUE]
          /\ NoFault
          /\ Step(p, [run[p] EXCEPT !.pc = nextPc, !.mark = db'])
       \/ /\ db.cols[k]
          /\ UNCHANGED db
          /\ NoFault
          /\ Step(p, [run[p] EXCEPT !.pc = "done",
                        !.log = @ \o <<Status("entry", "error")>>])
       \/ /\ ~db.cols[k]
          /\ CanFail
          /\ UNCHANGED db
          /\ Fault
          /\ Step(p, [run[p] EXCEPT !.pc = nextPc, !.mark = db'])
    /\ UNCHANGED <<tx, now, runs, tz, scope, prev, issued>>

\* ALTER TABLE <k> ADD COLUMN provider_unique_id TEXT; every error is
\* swallowed ('duplicate column name' silently, the others on the console).
AlterTable(p, k, nextPc) ==
    /\ \/ /\ ~db.cols[k]
          /\ db' = [db EXCEPT !.cols[k] = TRUE]
          /\ NoFault
       \/ /\ db.cols[k]
          /\ UNCHANGED db
          /\ NoFault
       \/ /\ ~db.cols[k]
          /\ CanFail
          /\ UNCHANGED db
          /\ Fault
    /\ Step(p, [run[p] EXCEPT !.pc = nextPc, !.mark = db'])
    /\ UNCHANGED <<tx, now, runs, tz, scope, prev, issued>>

AlterMovies(p) ==
    /\ run[p].pc = "alterMovies"
    /\ AlterTable(p, "movie", "alterSeries")

AlterSeries(p) ==
    /\ run[p].pc = "alterSeries"
    /\ AlterTable(p, "series", "fetchVodCats")

----------------------------------------------------------------------------
(* Phase 0: categories, lines 51-92 *)

\* What a provider may answer to a category request.
CatBodies ==
    { [array |-> TRUE, items |-> s] : s \in SeqsUpTo(CatRows, MaxFeed) }
        \cup {NoBody}

\* The answer to a category request: any body, or the one listing of a
\* provider whose listings do not change.
CatAnswers(which) == IF scope.fixed THEN {scope.plan[which]} ELSE CatBodies

\* Object keys: String(cat.category_id).
CatKey(cat) == IF cat.category_id = None THEN "undefined" ELSE cat.category_id

\* Object.values order: integer keys ascending, then the other keys.
CatKeyOrder == <<"5", "6", "undefined">>

ItemsOf(body) == IF body.array THEN body.items ELSE << >>

\* The merge with the two loops in the other order: series rows first.
AllCategoriesVodLast(vod, series) ==
    LET all == ItemsOf(series) \o ItemsOf(vod)
        at(k) == { i \in 1..Len(all) : CatKey(all[i]) = k }
    IN  [ k \in { CatKey(all[i]) : i \in 1..Len(all) } |->
            all[CHOOSE i \in at(k) : \A j \in at(k) : j <= i] ]

\* allCategories after both forEach loops: VOD rows first, then series rows,
\* a later row replacing an earlier one with the same key.
AllCategories(vod, series) ==
    LET all == ItemsOf(vod) \o ItemsOf(series)
        at(k) == { i \in 1..Len(all) : CatKey(all[i]) = k }
    IN  [ k \in { CatKey(all[i]) : i \in 1..Len(all) } |->
            all[CHOOSE i \in at(k) : \A j \in at(k) : j <= i] ]

\* Object.values(allCategories)
CombinedCategories(vod, series) ==
    LET all == AllCategories(vod, series)
        keys == SelectSeq(CatKeyOrder, LAMBDA k : k \in DOMAIN all)
    IN  [ i \in 1..Len(keys) |-> all[keys[i]] ]

\* The first index at or after i of a category the loop writes
\* (catData.category_id && catData.category_name), Len + 1 if none.
NextCat(rows, i) ==
    LET ok == { j \in i..Len(rows) :
                  rows[j].category_id # None /\ rows[j].category_name # None }
    IN  IF ok = {} THEN Len(rows) + 1
        ELSE CHOOSE j \in ok : \A h \in ok : j <= h

\* client.getVodCategories().  The round trip to the provider takes time: the
\* clock has moved on when it returns.
FetchVodCategories(p) ==
    /\ run[p].pc = "fetchVodCats"
    /\ LET r == [run[p] EXCEPT !.log = @ \o <<Status("categories", "info")>>]
       IN  \/ \E b \in CatAnswers("vodCats") :
                /\ Step(p, [r EXCEPT !.pc = "fetchSeriesCats", !.body = b,
                              !.log = @ \o <<Ev("categories", "fetch", "ok")>>])
                /\ NoFault
           \/ /\ CanFail
              /\ Fault
              /\ Step(p, [r EXCEPT !.pc = "catRollback",
                            !.log = @ \o <<Ev("categories", "fetch", "fail")>>])
           \/ /\ SinkCanThrow      \* line 54 throws: no request is made
              /\ Fault
              /\ Step(p, [run[p] EXCEPT !.pc = "catRollback",
                            !.log = @ \o <<SinkThrow("categories")>>])
    /\ now' = now + 1
    /\ UNCHANGED <<db, tx, runs, tz, scope, prev, issued>>

\* client.getSeriesCategories(), the merge, and the decision to write.
FetchSeriesCategories(p) ==
    /\ run[p].pc = "fetchSeriesCats"
    /\ \/ \E b \in CatAnswers("seriesCats") :
            LET combined == CombinedCategories(run[p].body, b)
                r == [run[p] EXCEPT !.body = NoBody,
                        !.log = @ \o <<Ev("categories", "fetch", "ok")>>]
            IN  /\ IF Len(combined) > 0
                   THEN Step(p, [r EXCEPT !.pc = "catBegin",
                                   !.rows = combined,
                                   !.log = @ \o <<Status("categories", "info")>>])
                   ELSE Step(p, [r EXCEPT !.pc = "fetch", !.kind = "movie",
                                          !.mark = db])
                /\ NoFault
       \/ /\ CanFail
          /\ Fault
          /\ Step(p, [run[p] EXCEPT !.pc = "catRollback", !.body = NoBody,
                        !.log = @ \o <<Ev("categories", "fetch", "fail")>>])
       \/ \E b \in CatAnswers("seriesCats") :     \* line 69 throws
            /\ Len(CombinedCategories(run[p].body, b)) > 0
            /\ SinkCanThrow
            /\ Fault
            /\ Step(p, [run[p] EXCEPT !.pc = "catRollback", !.body = NoBody,
                          !.log = @ \o <<Ev("categories", "fetch", "ok"),
                                         SinkThrow("categories")>>])
    /\ UNCHANGED <<db, tx, now, runs, tz, scope, prev, issued>>

\* dbRun(db, "BEGIN TRANSACTION"): an error when the connection already has
\* a transaction open.
Begin(p, ph, okRun, failPc) ==
    \/ /\ ~tx.active
       /\ tx' = [active |-> TRUE, snap |-> db]
       /\ NoFault
       /\ Step(p, [okRun EXCEPT !.log = @ \o <<Ev(ph, "begin", "ok")>>])
    \/ /\ tx.active \/ CanFail
       /\ IF tx.active THEN NoFault ELSE Fault
       /\ UNCHANGED tx
       /\ Step(p, [run[p] EXCEPT !.pc = failPc,
                     !.log = @ \o <<Ev(ph, "begin", "fail")>>])

\* dbRun(db, "COMMIT"): an error when no transaction is open.  tail is
\* what the call reports to the sink right after it.
Commit(p, ph, okRun, failPc, tail) ==
    \/ /\ tx.active
       /\ tx' = NoTx
       /\ NoFault
       /\ Step(p, [okRun EXCEPT
                     !.log = @ \o <<Ev(ph, "commit", "ok")>> \o tail])
    \/ /\ tx.active
       /\ tail # << >>
       /\ SinkCanThrow
       /\ tx' = NoTx
       /\ Fault
       /\ Step(p, [Cleared(run[p]) EXCEPT !.pc = "crashed",
                     !.log = @ \o <<Ev(ph, "commit", "ok"),
                                    SinkThrow(tail[1].ph)>>])
    \/ /\ ~tx.active \/ CanFail
       /\ IF tx.active THEN Fault ELSE NoFault
       /\ UNCHANGED tx
       /\ Step(p, [run[p] EXCEPT !.pc = failPc,
                     !.log = @ \o <<Ev(ph, "commit", "fail")>>])

\* A catch block that reports the error and leaves the transaction as it is.
RollbackSkipped(p, ph, okRun, tail) ==
    /\ NoFault
    /\ UNCHANGED <<db, tx>>
    /\ Step(p, [okRun EXCEPT
                  !.log = run[p].log \o <<Status(ph, "error")>> \o tail])

\* A catch block that ends the transaction without undoing its writes.
RollbackKeeps(p, ph, okRun, tail) ==
    /\ NoFault
    /\ IF tx.active
       THEN /\ db' = db
            /\ tx' = NoTx
            /\ Step(p, [okRun EXCEPT
                          !.log = run[p].log
                              \o <<Ev(ph, "rollback", "undo"),
                                   Status(ph, "error")>> \o tail])
       ELSE /\ UNCHANGED <<db, tx>>
            /\ Step(p, [run[p] EXCEPT !.pc = "crashed",
                          !.log = @ \o <<Ev(ph, "rollback", "fail"),
                                         Ev(ph, "throw", "rollback")>>])

\* What a successful ROLLBACK is logged with: whether it undid anything.
Undone == IF db = tx.snap THEN "noop" ELSE "undo"

\* catch (error) { await dbRun(db, "ROLLBACK"); sendStatus(..., 'error') }.
\* ROLLBACK is an error when no transaction is open; the catch block has no
\* handler of its own, so that error leaves refreshVodContent.
Rollback(p, ph, okRun, tail) ==
    IF tx.active
    THEN /\ db' = tx.snap
         /\ tx' = NoTx
         /\ \/ /\ NoFault
               /\ Step(p, [okRun EXCEPT
                             !.log = run[p].log
                                 \o <<Ev(ph, "rollback", Undone),
                                      Status(ph, "error")>> \o tail])
            \/ /\ SinkCanThrow      \* the catch block's sendStatus throws
               /\ Fault
               /\ Step(p, [Cleared(run[p]) EXCEPT !.pc = "crashed",
                             !.log = @ \o <<Ev(ph, "rollback", Undone),
                                            SinkThrow(ph)>>])
            \/ /\ tail # << >>      \* the sendStatus after it throws
               /\ SinkCanThrow
               /\ Fault
               /\ Step(p, [Cleared(run[p]) EXCEPT !.pc = "crashed",
                             !.log = @ \o <<Ev(ph, "rollback", Undone),
                                            Status(ph, "error"),
                                            SinkThrow(tail[1].ph)>>])
    ELSE /\ UNCHANGED <<db, tx>>
         /\ NoFault
         /\ Step(p, [Cleared(run[p]) EXCEPT !.pc = "crashed",
                       !.log = @ \o <<Ev(ph, "rollback", "fail"),
                                      Ev(ph, "throw", "rollback")>>])

CatPcAt(rows, i) == IF i > Len(rows) THEN "catCommit" ELSE "catInsert"

CatBegin(p) ==
    /\ run[p].pc = "catBegin"
    /\ LET i == NextCat(run[p].rows, 1)
       IN  Begin(p, "categories",
                 [run[p] EXCEPT !.pc = CatPcAt(run[p].rows, i), !.idx = i],
                 "catRollback")
    /\ UNCHANGED <<db, now, runs, tz, scope, prev, issued>>

\* categoryInsertStmt.run(...) and categoryMap.set(...)
CatInsert(p) ==
    /\ run[p].pc = "catInsert"
    /\ LET cat == run[p].rows[run[p].idx]
           i == NextCat(run[p].rows, run[p].idx + 1)
       IN  \/ /\ db' = InsertCategoryIfAbsent(db, cat.category_id,
                                              cat.category_name)
              /\ NoFault
              /\ Step(p, [run[p] EXCEPT
                            !.pc = CatPcAt(run[p].rows, i), !.idx = i,
                            !.categoryMap =
                                (cat.category_id :> cat.category_name) @@ @])
           \/ /\ CanFail
              /\ Fault
              /\ UNCHANGED db
              /\ Step(p, [run[p] EXCEPT !.pc = "catRollback",
                            !.log = @ \o <<Ev("categories", "write", "fail")>>])
    /\ UNCHANGED <<tx, now, runs, tz, scope, prev, issued>>

\* categoryInsertStmt.finalize, then COMMIT
CatCommit(p) ==
    /\ run[p].pc = "catCommit"
    /\ Commit(p, "categories",
              [run[p] EXCEPT !.pc = "fetch", !.kind = "movie",
                             !.rows = << >>, !.idx = 0, !.mark = db],
              "catRollback", << >>)
    /\ UNCHANGED <<db, now, runs, tz, scope, prev, issued>>

\* The categories catch block without its return statement.
CatRollbackNoReturn(p) ==
    /\ run[p].pc = "catRollback"
    /\ Rollback(p, "categories",
                [Cleared(run[p]) EXCEPT !.pc = "fetch", !.kind = "movie",
                                        !.mark = tx.snap],
                << >>)
    /\ UNCHANGED <<now, runs, tz, scope, prev, issued>>

\* Lines 87-92: roll back, report, return.
CatRollback(p) ==
    /\ run[p].pc = "catRollback"
    /\ Rollback(p, "categories", [Cleared(run[p]) EXCEPT !.pc = "done"],
                << >>)
    /\ UNCHANGED <<now, runs, tz, scope, prev, issued>>

----------------------------------------------------------------------------
(* Phases 1 and 2: movies (lines 94-153) and series (lines 155-214).       *)
(* The two blocks are the same code up to the table, the default category, *)
(* the icon field and the relation's container extension; run[p].kind says *)
(* which one is running.                                                   *)

\* What a provider may answer to getVodStreams() / getSeries().
FeedBodies(k) ==
    { [array |-> TRUE, items |-> s] : s \in SeqsUpTo(FeedRows(k), MaxFeed) }
        \cup {NoBody}

FeedAnswers(k) == IF scope.fixed THEN {scope.plan[k]} ELSE FeedBodies(k)

\* A series block that is followed by the movies block once more.
AfterPhaseLoops(r, k, d) ==
    IF k = "movie"
    THEN [Cleared(r) EXCEPT !.pc = "fetch", !.kind = "series", !.mark = d]
    ELSE [Cleared(r) EXCEPT !.pc = "fetch", !.kind = "movie", !.mark = d]

\* Where the call goes after the phase of kind k.
\* (d is the store at that moment.)
AfterPhase(r, k, d) ==
    IF k = "movie"
    THEN [Cleared(r) EXCEPT !.pc = "fetch", !.kind = "series", !.mark = d]
    ELSE [Cleared(r) EXCEPT !.pc = "clBegin", !.kind = "none", !.mark = d]

\* The native ids of the rows the loop does not skip.
NativesOf(rows) ==
    { rows[i].stream_id : i \in 1..Len(rows) } \ {NoId}

RowPcAt(rows, i) == IF i > Len(rows) THEN "commit" ELSE "entity"

\* A fetch that reports an answer that is not a list to the sink as an
\* error before it goes on with the next phase.
FetchListOnly(p) ==
    /\ run[p].pc = "fetch"
    /\ LET k == run[p].kind
           r == [run[p] EXCEPT !.log = @ \o <<Status(k, "info")>>]
       IN  \/ \E b \in FeedAnswers(k) :
                /\ NoFault
                /\ IF b.array
                   THEN Step(p, [r EXCEPT !.pc = "begin", !.rows = b.items,
                                   !.natives[k] = NativesOf(b.items),
                                   !.log = @ \o <<Ev(k, "fetch", "ok"),
                                                  Status(k, "info")>>])
                   ELSE Step(p, [AfterPhase(r, k, db) EXCEPT
                                   !.log = @ \o <<Ev(k, "fetch", "ok"),
                                                  Status(k, "error")>>])
           \/ /\ CanFail
              /\ Fault
              /\ Step(p, [r EXCEPT !.pc = "rollback",
                            !.log = @ \o <<Ev(k, "fetch", "fail")>>])
    /\ UNCHANGED <<db, tx, now, runs, tz, scope, prev, issued>>

\* client.getVodStreams() / client.getSeries()
Fetch(p) ==
    /\ run[p].pc = "fetch"
    /\ LET k == run[p].kind
           r == [run[p] EXCEPT !.log = @ \o <<Status(k, "info")>>]
       IN  \/ \E b \in FeedAnswers(k) :
                /\ NoFault
                /\ IF b.array
                   THEN Step(p, [r EXCEPT !.pc = "begin", !.rows = b.items,
                                   !.natives[k] = NativesOf(b.items),
                                   !.log = @ \o <<Ev(k, "fetch", "ok"),
                                                  Status(k, "info")>>])
                   ELSE Step(p, [AfterPhase(r, k, db) EXCEPT
                                   !.log = @ \o <<Ev(k, "fetch", "ok")>>])
           \/ /\ CanFail
              /\ Fault
              /\ Step(p, [r EXCEPT !.pc = "rollback",
                            !.log = @ \o <<Ev(k, "fetch", "fail")>>])
           \/ /\ SinkCanThrow      \* line 96 throws: no request is made
              /\ Fault
              /\ Step(p, [run[p] EXCEPT !.pc = "rollback",
                            !.log = @ \o <<SinkThrow(k)>>])
           \/ \E b \in FeedAnswers(k) :      \* line 101 throws
                /\ b.array
                /\ SinkCanThrow
                /\ Fault
                /\ Step(p, [r EXCEPT !.pc = "rollback",
                              !.log = @ \o <<Ev(k, "fetch", "ok"),
                                             SinkThrow(k)>>])
    /\ UNCHANGED <<db, tx, now, runs, tz, scope, prev, issued>>

EntBegin(p) ==
    /\ run[p].pc = "begin"
    /\ Begin(p, run[p].kind, [run[p] EXCEPT !.pc = "select"], "rollback")
    /\ UNCHANGED <<db, now, runs, tz, scope, prev, issued>>

\* dbAll(db, 'SELECT id, provider_unique_id FROM movies WHERE
\* provider_unique_id IS NOT NULL') and the three db.prepare calls.
Select(p) ==
    /\ run[p].pc = "select"
    /\ LET k == run[p].kind
           i == NextRow(run[p].rows, 1)
       IN  \/ /\ db.cols[k]
              /\ NoFault
              /\ Step(p, [run[p] EXCEPT
                            !.pc = RowPcAt(run[p].rows, i), !.idx = i,
                            !.providerUniqueIdMap = IdMapOf(db.ent[k])])
           \/ /\ ~db.cols[k] \/ CanFail
              /\ IF db.cols[k] THEN Fault ELSE NoFault
              /\ Step(p, [run[p] EXCEPT !.pc = "rollback",
                            !.log = @ \o <<Ev(k, "select", "fail")>>])
    /\ UNCHANGED <<db, tx, now, runs, tz, scope, prev, issued>>

\* An upsert that never consults the map.
UpsertEntityAlwaysInsert(d, k, map, uid, f) ==
    LET d2 == InsertEntity(d, k, f, uid)
    IN  [db |-> d2, id |-> d2.seq[k],
         map |-> (uid :> d2.seq[k]) @@ map, inserted |-> TRUE]

\* The statement lines 125-140 run for a row: UPDATE when the map knows the
\* row's provider-unique id, INSERT (and a new map entry) otherwise.
UpsertEntity(d, k, map, uid, f) ==
    IF uid \in DOMAIN map
    THEN [db |-> UpdateEntity(d, k, map[uid], f), id |-> map[uid],
          map |-> map, inserted |-> FALSE]
    ELSE LET d2 == InsertEntity(d, k, f, uid)
         IN  [db |-> d2, id |-> d2.seq[k],
              map |-> (uid :> d2.seq[k]) @@ map, inserted |-> TRUE]

EntityWrite(p) ==
    /\ run[p].pc = "entity"
    /\ LET k == run[p].kind
           row == run[p].rows[run[p].idx]
           uid == ProviderUniqueId(k, p, row.stream_id)
           f == EntityFields(k, run[p].categoryMap, row, tz)
           res == UpsertEntity(db, k, run[p].providerUniqueIdMap, uid, f)
       IN  \/ /\ db' = res.db
              /\ issued' = IF res.inserted
                            THEN issued \cup
                                   {[k |-> k, uid |-> uid, id |-> res.id]}
                            ELSE issued
              /\ NoFault
              /\ Step(p, [run[p] EXCEPT !.pc = "relation",
                            !.entityId = res.id,
                            !.providerUniqueIdMap = res.map])
           \/ /\ CanFail
              /\ Fault
              /\ UNCHANGED <<db, issued>>
              /\ Step(p, [run[p] EXCEPT !.pc = "rollback",
                            !.log = @ \o <<Ev(k, "write", "fail")>>])
    /\ UNCHANGED <<tx, now, runs, tz, scope, prev>>

\* The row relationInsertStmt.run(...) writes, line 142 / 203.
RelationRow(k, providerId, entityId, row, scanStartTime) ==
    [ provider |-> providerId, entity |-> entityId, native |-> row.stream_id,
      ext |-> ExtensionOf(k, row), lastSeen |-> scanStartTime ]

RelationWrite(p) ==
    /\ run[p].pc = "relation"
    /\ LET k == run[p].kind
           row == run[p].rows[run[p].idx]
           i == NextRow(run[p].rows, run[p].idx + 1)
       IN  \/ /\ db' = UpsertRelation(db, k,
                          RelationRow(k, p, run[p].entityId, row,
                                      run[p].scanStartTime))
              /\ NoFault
              /\ Step(p, [run[p] EXCEPT
                            !.pc = RowPcAt(run[p].rows, i), !.idx = i])
           \/ /\ CanFail
              /\ Fault
              /\ UNCHANGED db
              /\ Step(p, [run[p] EXCEPT !.pc = "rollback",
                            !.log = @ \o <<Ev(k, "write", "fail")>>])
    /\ UNCHANGED <<tx, now, runs, tz, scope, prev, issued>>

\* The three finalize calls, then COMMIT.
EntCommit(p) ==
    /\ run[p].pc = "commit"
    /\ Commit(p, run[p].kind, AfterPhase(run[p], run[p].kind, db),
              "rollback", << >>)
    /\ UNCHANGED <<db, now, runs, tz, scope, prev, issued>>

\* Lines 149-153 / 210-214: roll back, report, go on with the next phase.
EntRollback(p) ==
    /\ run[p].pc = "rollback"
    /\ Rollback(p, run[p].kind, AfterPhase(run[p], run[p].kind, tx.snap),
                << >>)
    /\ UNCHANGED <<now, runs, tz, scope, prev, issued>>

----------------------------------------------------------------------------
(* Phase 4: cleanup, lines 216-243, and the end of the call, lines 245-246 *)

\* The orphan deletions issued before the stale-relation deletions.
CleanupPlanOrphansFirst ==
    << [op |-> "stale", k |-> "movie"],
       [op |-> "orphan", k |-> "movie"],
       [op |-> "stale", k |-> "series"],
       [op |-> "orphan", k |-> "series"],
       [op |-> "stale", k |-> "episode"],
       [op |-> "orphan", k |-> "episode"] >>

\* The cleanup without the statement of line 229: episode relations stay.
CleanupPlanKeepsEpisodes ==
    << [op |-> "stale", k |-> "movie"],
       [op |-> "stale", k |-> "series"],
       [op |-> "orphan", k |-> "movie"],
       [op |-> "orphan", k |-> "series"],
       [op |-> "orphan", k |-> "episode"] >>

\* The six DELETE statements in the order the code issues them.
CleanupPlan ==
    << [op |-> "stale", k |-> "movie"],
       [op |-> "stale", k |-> "series"],
       [op |-> "stale", k |-> "episode"],
       [op |-> "orphan", k |-> "movie"],
       [op |-> "orphan", k |-> "series"],
       [op |-> "orphan", k |-> "episode"] >>

\* An orphan check that looks at the relations of the current provider only.
CleanupEffectOwnOnly(d, stmt, providerId, scanStartTime) ==
    IF stmt.op = "stale"
    THEN DeleteStaleRelations(d, stmt.k, providerId, scanStartTime)
    ELSE [d EXCEPT !.ent[stmt.k] =
            { e \in @ : e.id \in { x.entity : x \in
                { y \in d.rel[stmt.k] : y.provider = providerId } } }]

\* A cleanup that takes a fresh timestamp instead of the call's scanStartTime.
CleanupEffectFreshStamp(d, stmt, providerId, scanStartTime) ==
    IF stmt.op = "stale"
    THEN DeleteStaleRelations(d, stmt.k, providerId, now)
    ELSE DeleteOrphans(d, stmt.k)

\* The effect of one statement of the plan.
CleanupEffect(d, stmt, providerId, scanStartTime) ==
    IF stmt.op = "stale"
    THEN DeleteStaleRelations(d, stmt.k, providerId, scanStartTime)
    ELSE DeleteOrphans(d, stmt.k)

\* The call after its last statement.
Finished(r) == [Cleared(r) EXCEPT !.pc = "done", !.kind = "none"]

\* Line 246: sendStatus('VOD refresh successful ...', 'success')
FinalStatus == <<Status("end", "success")>>

\* A cleanup that issues its statements without opening a transaction.
CleanupBeginNoTx(p) ==
    /\ run[p].pc = "clBegin"
    /\ Step(p, [run[p] EXCEPT !.pc = "clStmt", !.idx = 1,
                  !.log = @ \o <<Status("cleanup", "info")>>])
    /\ UNCHANGED <<db, tx, now, runs, faults, tz, scope, prev, issued>>

CleanupBegin(p) ==
    /\ run[p].pc = "clBegin"
    /\ LET r == [run[p] EXCEPT !.log = @ \o <<Status("cleanup", "info")>>]
       IN  \/ /\ ~tx.active
              /\ tx' = [active |-> TRUE, snap |-> db]
              /\ NoFault
              /\ Step(p, [r EXCEPT !.pc = "clStmt", !.idx = 1,
                            !.log = @ \o <<Ev("cleanup", "begin", "ok")>>])
           \/ /\ tx.active \/ CanFail
              /\ IF tx.active THEN NoFault ELSE Fault
              /\ UNCHANGED tx
              /\ Step(p, [r EXCEPT !.pc = "clRollback",
                            !.log = @ \o <<Ev("cleanup", "begin", "fail")>>])
           \/ /\ SinkCanThrow      \* line 219 throws: no BEGIN is issued
              /\ Fault
              /\ UNCHANGED tx
              /\ Step(p, [run[p] EXCEPT !.pc = "clRollback",
                            !.log = @ \o <<SinkThrow("cleanup")>>])
    /\ UNCHANGED <<db, now, runs, tz, scope, prev, issued>>

CleanupStatement(p) ==
    /\ run[p].pc = "clStmt"
    /\ LET stmt == CleanupPlan[run[p].idx]
           last == run[p].idx = Len(CleanupPlan)
       IN  \/ /\ db' = CleanupEffect(db, stmt, p, run[p].scanStartTime)
              /\ NoFault
              /\ Step(p, [run[p] EXCEPT
                            !.pc = IF last THEN "clCommit" ELSE "clStmt",
                            !.idx = IF last THEN 0 ELSE @ + 1,
                            !.log = @ \o <<Ev("cleanup", stmt.op, stmt.k)>>])
           \/ /\ CanFail
              /\ Fault
              /\ UNCHANGED db
              /\ Step(p, [run[p] EXCEPT !.pc = "clRollback", !.idx = 0,
                            !.log = @ \o <<Ev("cleanup", stmt.op, "fail")>>])
    /\ UNCHANGED <<tx, now, runs, tz, scope, prev, issued>>

CleanupCommit(p) ==
    /\ run[p].pc = "clCommit"
    /\ Commit(p, "cleanup", Finished(run[p]), "clRollback", FinalStatus)
    /\ UNCHANGED <<db, now, runs, tz, scope, prev, issued>>

\* Lines 239-243, then line 246.
CleanupRollback(p) ==
    /\ run[p].pc = "clRollback"
    /\ Rollback(p, "cleanup", Finished(run[p]), FinalStatus)
    /\ UNCHANGED <<now, runs, tz, scope, prev, issued>>

----------------------------------------------------------------------------
(* Episodes are stored by another part of the server while no refresh is   *)
(* running; the cleanup phase reaps them.                                  *)

StoreEpisode(p) ==
    /\ p \in scope.providers
    /\ \A q \in Providers : run[q].pc = "idle"
    /\ db.seq["episode"] < MaxEpisodes
    /\ runs < scope.maxRuns
    /\ LET id == db.seq["episode"] + 1
       IN  db' = [db EXCEPT
                    !.seq["episode"] = id,
                    !.ent["episode"] = @ \cup {[id |-> id]},
                    !.rel["episode"] = @ \cup
                        { [ provider |-> p, entity |-> id,
                            native |-> <<"e">>, ext |-> None,
                            lastSeen |-> now ] }]
    /\ UNCHANGED <<tx, run, now, runs, faults, tz, scope, prev, issued>>

----------------------------------------------------------------------------

Next ==
    \/ \E p \in Providers, c \in CredCases : StartRun(p, c)
    \/ \E p \in Providers : AlterMovies(p)
    \/ \E p \in Providers : AlterSeries(p)
    \/ \E p \in Providers : FetchVodCategories(p)
    \/ \E p \in Providers : FetchSeriesCategories(p)
    \/ \E p \in Providers : CatBegin(p)
    \/ \E p \in Providers : CatInsert(p)
    \/ \E p \in Providers : CatCommit(p)
    \/ \E p \in Providers : CatRollback(p)
    \/ \E p \in Providers : Fetch(p)
    \/ \E p \in Providers : EntBegin(p)
    \/ \E p \in Providers : Select(p)
    \/ \E p \in Providers : EntityWrite(p)
    \/ \E p \in Providers : RelationWrite(p)
    \/ \E p \in Providers : EntCommit(p)
    \/ \E p \in Providers : EntRollback(p)
    \/ \E p \in Providers : CleanupBegin(p)
    \/ \E p \in Providers : CleanupStatement(p)
    \/ \E p \in Providers : CleanupCommit(p)
    \/ \E p \in Providers : CleanupRollback(p)
    \/ \E p \in Providers : Return(p)

Spec == Init /\ [][Next]_vars

SpecOne == InitOne /\ [][Next]_vars

\* The two-provider server with episodes being stored between the calls.
NextEp ==
    \/ Next
    \/ \E p \in Providers : StoreEpisode(p)

SpecEp == Init /\ [][NextEp]_vars

\* One provider whose listings are the same at every call.
Plans ==
    [vodCats : CatBodies, seriesCats : CatBodies,
     movie : FeedBodies("movie"), series : FeedBodies("series")]

InitTwice ==
    \E plan \in Plans :
        InitWith([providers |-> {ProvA}, maxRuns |-> MaxRunsTwice,
                  fixed |-> TRUE, plan |-> plan])

SpecTwice == InitTwice /\ [][Next]_vars

----------------------------------------------------------------------------
(* processM3uVod, lines 259-380: the catalog rebuilt from a playlist text  *)
(*                                                                         *)
(* A line of the playlist is a sequence of lexemes (strings): the regular  *)
(* expressions and string searches of the parser are computed on the       *)
(* lexemes, so that a name, an attribute or a stream id is what the code   *)
(* would cut out of the line.                                              *)

\* Lexemes that are not runs of [a-zA-Z0-9_-].
NonWord ==
    { " ", ",", "\"", "=\"", "(", ")", ".", ":", "#EXTINF:", "#EXTGRP:",
      "://h", "/", "/movie/", "/series/" }

White == {" "}

QuoteEnd == {"\"", "=\""}       \* lexemes that hold a double quote

SlashEnd == {"/", "/movie/", "/series/"}   \* lexemes that end with a slash

IsWord(t) == t \notin NonWord

\* Lines a playlist may hold.
ExtInfKids ==
    <<"#EXTINF:", "-1", " ", "tvg-logo", "=\"", "l1", "\"", " ",
      "group-title", "=\"", "Kids", "\"", ",">> \o NameYear
ExtInfBare == <<"#EXTINF:", "-1", ",">> \o NamePlain
ExtInfNoGroup ==
    <<"#EXTINF:", "-1", " ", "group-title", "=\"", "\"", ",", " ">>
        \o NamePlain
UrlMovie == <<"http", "://h", "/movie/", "10", ".", "mkv">>
UrlSeries == <<"http", "://h", "/series/", "20", ".", "mp4">>
OtherLine == <<"#EXTGRP:", "x">>

M3uLines ==
    {ExtInfKids, ExtInfBare, ExtInfNoGroup, UrlMovie, UrlSeries, OtherLine}

\* The concatenation of the lexemes of s.
RECURSIVE Join(_)
Join(s) == IF s = << >> THEN "" ELSE Head(s) \o Join(Tail(s))

\* The least element of a non-empty set of numbers.
Least(S) == CHOOSE i \in S : \A j \in S : i <= j

\* The greatest element of a non-empty set of numbers.
Greatest(S) == CHOOSE i \in S : \A j \in S : j <= i

\* String.prototype.trim
Trim(s) ==
    LET ink == { i \in 1..Len(s) : s[i] \notin White }
    IN  IF ink = {} THEN << >> ELSE SubSeq(s, Least(ink), Greatest(ink))

\* attributeRegex = /([a-zA-Z0-9_-]+)="([^"]*)"/g, run with exec from
\* position i on: acc with every match's key set to its value.
RECURSIVE ScanAttributes(_, _, _)
ScanAttributes(line, i, acc) ==
    LET opens == { m \in (i + 1)..Len(line) :
                     /\ line[m] = "=\""
                     /\ IsWord(line[m - 1])
                     /\ \E j \in (m + 1)..Len(line) : line[j] \in QuoteEnd }
    IN  IF opens = {} THEN acc
        ELSE LET m == Least(opens)
                 j == Least({ h \in (m + 1)..Len(line) :
                                line[h] \in QuoteEnd })
                 a == Least({ h \in i..(m - 1) :
                                \A g \in h..(m - 1) : IsWord(line[g]) })
                 key == Join(SubSeq(line, a, m - 1))
                 val == Join(SubSeq(line, m + 1, j - 1))
                            \o (IF line[j] = "=\"" THEN "=" ELSE "")
             IN  ScanAttributes(line, j + 1, (key :> val) @@ acc)

\* line.match(/,(.*)$/): what follows the first comma, trimmed; 'Untitled'
\* when the line has no comma.
M3uNameOf(line) ==
    LET commas == { i \in 1..Len(line) : line[i] = "," }
    IN  IF commas = {} THEN <<"Untitled">>
        ELSE Trim(SubSeq(line, Least(commas) + 1, Len(line)))

\* attributes[key] || otherwise
AttributeOr(attributes, key, otherwise) ==
    IF key \in DOMAIN attributes /\ attributes[key] # ""
    THEN attributes[key] ELSE otherwise

NoExtInf == [set |-> FALSE, name |-> << >>, attributes |-> << >>]

NothingFound == [movie |-> << >>, series |-> << >>]

\* The loop of lines 273-294 from line i on: cur is currentExtInf, found
\* the two lists so far.
RECURSIVE ParseFrom(_, _, _, _)
ParseFrom(lines, i, cur, found) ==
    IF i > Len(lines) THEN found
    ELSE
      LET line == lines[i]
          url == Trim(line)
      IN  IF Len(line) > 0 /\ line[1] = "#EXTINF:"
          THEN ParseFrom(lines, i + 1,
                         [set |-> TRUE, name |-> M3uNameOf(line),
                          attributes |-> ScanAttributes(line, 1, << >>)],
                         found)
          ELSE IF Len(url) > 0 /\ url[1] = "http" /\ cur.set
          THEN LET type == AttributeOr(cur.attributes, "tvg-type", "")
                   isMovie == (\E h \in 1..Len(url) : url[h] = "/movie/")
                                  \/ type = "movie"
                   isSeries == (\E h \in 1..Len(url) : url[h] = "/series/")
                                  \/ type = "series"
                   e == [name |-> cur.name, attributes |-> cur.attributes,
                         url |-> url]
               IN  ParseFrom(lines, i + 1, NoExtInf,
                       IF isMovie
                       THEN [found EXCEPT !.movie = Append(@, e)]
                       ELSE IF isSeries
                            THEN [found EXCEPT !.series = Append(@, e)]
                            ELSE found)
          ELSE ParseFrom(lines, i + 1, cur, found)

\* The movies and the series of a playlist, lines 265-294.
ParseM3u(lines) == ParseFrom(lines, 1, NoExtInf, NothingFound)

\* url.substring(url.lastIndexOf('/') + 1).split('.')[0]
M3uStreamId(url) ==
    LET slashes == { i \in 1..Len(url) : url[i] \in SlashEnd }
        rest == IF slashes = {} THEN url
                ELSE SubSeq(url, Greatest(slashes) + 1, Len(url))
        dots == { i \in 1..Len(rest) : rest[i] = "." }
    IN  IF dots = {} THEN rest ELSE SubSeq(rest, 1, Least(dots) - 1)

\* url.split('.').pop() || 'mp4'
M3uExtension(url) ==
    LET dots == { i \in 1..Len(url) : url[i] = "." }
        last == IF dots = {} THEN Join(url)
                ELSE Join(SubSeq(url, Greatest(dots) + 1, Len(url)))
    IN  IF last = "" THEN "mp4" ELSE last

\* String.prototype.toLowerCase, on the letters the names are made of.
LowerCase(t) ==
    CASE t = "A" -> "a" [] t = "H" -> "h" [] t = "U" -> "u"
      [] t = "Untitled" -> "untitled" [] OTHER -> t

\* The name itself taken as the native id.
SlugFromAsIs(name, i) == SubSeq(name, i, Len(name))

\* name.replace(/\s+/g, '_').toLowerCase(), from lexeme i on.
RECURSIVE SlugFrom(_, _)
SlugFrom(name, i) ==
    IF i > Len(name) THEN << >>
    ELSE IF name[i] \in White
         THEN (IF i > 1 /\ name[i - 1] \in White THEN << >> ELSE <<"_">>)
                  \o SlugFrom(name, i + 1)
         ELSE <<LowerCase(name[i])>> \o SlugFrom(name, i + 1)

\* streamId (line 311) / externalSeriesId (line 347)
M3uNativeId(k, e) ==
    IF k = "movie" THEN M3uStreamId(e.url) ELSE SlugFrom(e.name, 1)

\* The columns the INSERT of lines 304 / 339 is given (description is not
\* among them and stays NULL).
M3uFields(k, e) ==
    [ name |-> e.name,
      year |-> IF YearMatchAt(e.name) # 0
               THEN ParseYear(e.name, YearMatchAt(e.name)) ELSE NoYear,
      description |-> None,
      logo |-> AttributeOr(e.attributes, "tvg-logo", None),
      category_name |->
          AttributeOr(e.attributes, "group-title", DefaultCategory(k)) ]

\* The row of lines 331 / 366.
M3uRelationRow(k, providerId, entityId, e, scanStartTime) ==
    [ provider |-> providerId, entity |-> entityId,
      native |-> M3uNativeId(k, e),
      ext |-> IF k = "movie" THEN M3uExtension(e.url) ELSE None,
      lastSeen |-> scanStartTime ]

\* An INSERT OR REPLACE run for every entry: the row that has the
\* provider-unique id is deleted and a new one is inserted.
InsertOrReplaceEntity(d, k, map, uid, f) ==
    LET d2 == InsertEntity([d EXCEPT !.ent[k] = { e \in @ : e.uid # uid }],
                           k, f, uid)
    IN  [db |-> d2, id |-> d2.seq[k],
         map |-> (uid :> d2.seq[k]) @@ map, inserted |-> TRUE]

\* if (!movieId) { INSERT ... }: a row is inserted when the map does not
\* know the provider-unique id, and nothing is written otherwise.
InsertIfNew(d, k, map, uid, f) ==
    IF uid \in DOMAIN map
    THEN [db |-> d, id |-> map[uid], map |-> map, inserted |-> FALSE]
    ELSE LET d2 == InsertEntity(d, k, f, uid)
         IN  [db |-> d2, id |-> d2.seq[k],
              map |-> (uid :> d2.seq[k]) @@ map, inserted |-> TRUE]

\* The texts processM3uVod may be given.
Playlists == SeqsUpTo(M3uLines, MaxLines)

\* if (series.length > 0) { ... } and what follows it.
EnterSeries(r) ==
    IF Len(r.found.series) > 0
    THEN [Cleared(r) EXCEPT !.pc = "m3uSelect", !.kind = "series",
                            !.rows = r.found.series]
    ELSE [Cleared(r) EXCEPT !.pc = "m3uCommit", !.kind = "none"]

\* if (movies.length > 0) { ... } and what follows it.
EnterMovies(r) ==
    IF Len(r.found.movie) > 0
    THEN [Cleared(r) EXCEPT !.pc = "m3uSelect", !.kind = "movie",
                            !.rows = r.found.movie]
    ELSE EnterSeries(r)

\* Lines 259-297: the text is parsed and the counts are reported.
M3uStart(p, content) ==
    /\ \A q \in Providers : run[q].pc = "idle"
    /\ p \in scope.providers
    /\ runs < scope.maxRuns
    /\ runs' = runs + 1
    /\ now' = now + 1
    /\ LET r0 == [IdleRun EXCEPT !.scanStartTime = now + 1, !.mark = db,
                                 !.found = ParseM3u(content)]
       IN  \/ /\ NoFault
              /\ Step(p, [r0 EXCEPT !.pc = "m3uBegin",
                            !.log = <<Status("m3u", "info")>>])
           \/ /\ SinkCanThrow
              /\ Fault
              /\ Step(p, [r0 EXCEPT !.pc = "m3uRollback",
                            !.log = <<SinkThrow("m3u")>>])
    /\ UNCHANGED <<db, tx, tz, scope, prev, issued>>

\* Line 300.
M3uBegin(p) ==
    /\ run[p].pc = "m3uBegin"
    /\ Begin(p, "m3u", EnterMovies(run[p]), "m3uRollback")
    /\ UNCHANGED <<db, now, runs, tz, scope, prev, issued>>

\* Lines 304-307 / 339-342: the statements are prepared and the rows that
\* have a provider-unique id are read.
M3uSelect(p) ==
    /\ run[p].pc = "m3uSelect"
    /\ LET k == run[p].kind
       IN  \/ /\ db.cols[k]
              /\ NoFault
              /\ Step(p, [run[p] EXCEPT !.pc = "m3uEntity", !.idx = 1,
                            !.providerUniqueIdMap = IdMapOf(db.ent[k])])
           \/ /\ ~db.cols[k] \/ CanFail
              /\ IF db.cols[k] THEN Fault ELSE NoFault
              /\ Step(p, [run[p] EXCEPT !.pc = "m3uRollback",
                            !.log = @ \o <<Ev("m3u", "select", "fail")>>])
    /\ UNCHANGED <<db, tx, now, runs, tz, scope, prev, issued>>

\* Lines 309-328 / 344-364 for the entry at idx.
M3uEntity(p) ==
    /\ run[p].pc = "m3uEntity"
    /\ LET k == run[p].kind
           e == run[p].rows[run[p].idx]
           uid == ProviderUniqueId(k, p, M3uNativeId(k, e))
           res == InsertIfNew(db, k, run[p].providerUniqueIdMap, uid,
                              M3uFields(k, e))
       IN  \/ /\ db' = res.db
              /\ issued' = IF res.inserted
                            THEN issued \cup
                                   {[k |-> k, uid |-> uid, id |-> res.id]}
                            ELSE issued
              /\ NoFault
              /\ Step(p, [run[p] EXCEPT !.pc = "m3uRelation",
                            !.entityId = res.id,
                            !.providerUniqueIdMap = res.map])
           \/ /\ res.inserted
              /\ CanFail
              /\ Fault
              /\ UNCHANGED <<db, issued>>
              /\ Step(p, [run[p] EXCEPT !.pc = "m3uRollback",
                            !.log = @ \o <<Ev("m3u", "write", "fail")>>])
    /\ UNCHANGED <<tx, now, runs, tz, scope, prev>>

\* Lines 330-331 / 366, and the two finalize calls after the last entry.
M3uRelation(p) ==
    /\ run[p].pc = "m3uRelation"
    /\ LET k == run[p].kind
           e == run[p].rows[run[p].idx]
       IN  \/ /\ db' = UpsertRelation(db, k,
                          M3uRelationRow(k, p, run[p].entityId, e,
                                         run[p].scanStartTime))
              /\ NoFault
              /\ Step(p, IF run[p].idx < Len(run[p].rows)
                         THEN [run[p] EXCEPT !.pc = "m3uEntity",
                                             !.idx = @ + 1]
                         ELSE IF k = "movie" THEN EnterSeries(run[p])
                              ELSE [Cleared(run[p]) EXCEPT
                                      !.pc = "m3uCommit", !.kind = "none"])
           \/ /\ CanFail
              /\ Fault
              /\ UNCHANGED db
              /\ Step(p, [run[p] EXCEPT !.pc = "m3uRollback",
                            !.log = @ \o <<Ev("m3u", "write", "fail")>>])
    /\ UNCHANGED <<tx, now, runs, tz, scope, prev, issued>>

\* Lines 372-373.
M3uCommit(p) ==
    /\ run[p].pc = "m3uCommit"
    /\ Commit(p, "m3u", Finished(run[p]), "m3uRollback",
              <<Status("m3u", "success")>>)
    /\ UNCHANGED <<db, now, runs, tz, scope, prev, issued>>

\* A catch block whose ROLLBACK ends the transaction and keeps its writes.
M3uRollbackKeeps(p) ==
    /\ run[p].pc = "m3uRollback"
    /\ RollbackKeeps(p, "m3u", Finished(run[p]), << >>)
    /\ UNCHANGED <<now, runs, tz, scope, prev, issued>>

\* Lines 375-379.
M3uRollback(p) ==
    /\ run[p].pc = "m3uRollback"
    /\ Rollback(p, "m3u", Finished(run[p]), << >>)
    /\ UNCHANGED <<now, runs, tz, scope, prev, issued>>

\* A server with one provider whose catalog is rebuilt from its API or
\* from a playlist.
NextM3u ==
    \/ Next
    \/ \E p \in Providers, content \in Playlists : M3uStart(p, content)
    \/ \E p \in Providers : M3uBegin(p)
    \/ \E p \in Providers : M3uSelect(p)
    \/ \E p \in Providers : M3uEntity(p)
    \/ \E p \in Providers : M3uRelation(p)
    \/ \E p \in Providers : M3uCommit(p)
    \/ \E p \in Providers : M3uRollback(p)

InitM3u ==
    InitWith([providers |-> {ProvA}, maxRuns |-> MaxRunsM3u,
              fixed |-> FALSE, plan |-> NoPlan])

SpecM3u == InitM3u /\ [][NextM3u]_vars

----------------------------------------------------------------------------
(* Vocabulary of the properties *)

Settled(p) == run[p].pc \in {"done", "crashed"}

\* The call of p logged an event ev of phase ph.
Has(p, ph, ev) ==
    \E i \in 1..Len(run[p].log) :
        run[p].log[i].ph = ph /\ run[p].log[i].ev = ev

\* Phase ph of the call of p met a failure (a fetch, BEGIN, a write, a
\* DELETE or COMMIT).
Failed(p, ph) ==
    \E i \in 1..Len(run[p].log) :
        /\ run[p].log[i].ph = ph
        /\ run[p].log[i].arg = "fail"
        /\ run[p].log[i].ev # "rollback"

\* The rows of the catalog: categories, entities and relations.
Rows(d) == [cats |-> d.cats, ent |-> d.ent, rel |-> d.rel]

EntityIds(d, k) == { e.id : e \in d.ent[k] }

----------------------------------------------------------------------------
(* C1: when the movies fetch fails, the call still attempts the series     *)
(* phase and then the cleanup phase; when the series fetch fails, it still *)
(* attempts the cleanup phase.                                             *)
C1_FetchFailureIsolated ==
    \A p \in Providers :
        Settled(p) =>
            /\ Logged(p, Ev("movie", "fetch", "fail")) =>
                   Has(p, "series", "fetch") /\ Has(p, "cleanup", "begin")
            /\ Logged(p, Ev("series", "fetch", "fail")) =>
                   Has(p, "cleanup", "begin")

(* C2: once the categories phase has failed, the call fetches no movie or  *)
(* series listing, runs no cleanup, and, from the moment its catch block   *)
(* has run, the catalog's rows are those the phase found: no category row  *)
(* written by the phase remains and no entity or relation has changed.     *)
C2_CategoryFailureAborts ==
    \A p \in Providers :
        Failed(p, "categories") =>
            /\ run[p].pc \in {"catRollback", "done", "crashed"}
            /\ ~Has(p, "movie", "fetch") /\ ~Has(p, "series", "fetch")
            /\ \A i \in 1..Len(run[p].log) : run[p].log[i].ph # "cleanup"
            /\ Settled(p) => Rows(db) = Rows(run[p].mark)

\* A category write failed after an earlier write of the phase, which the
\* ROLLBACK undid; the call has returned.
C2_Witness ==
    \E p \in Providers :
        /\ run[p].pc = "done"
        /\ Failed(p, "categories")
        /\ Logged(p, Ev("categories", "rollback", "undo"))

(* C3: when the movies or series phase fails and its catch block has run,  *)
(* the whole catalog is as it was when the phase began: no entity insert,  *)
(* entity update or relation write of the phase remains, and every         *)
(* category the categories phase of this call committed is still stored.   *)
C3_PhaseRollbackIsolated ==
    [][ \A p \in Providers :
          (run[p].pc = "rollback" /\ run'[p].pc # "rollback") =>
              /\ Rows(db') = Rows(run[p].mark)
              /\ \A id \in DOMAIN run[p].categoryMap : id \in DOMAIN db'.cats
      ]_vars

\* A movie write failed after other writes of the phase, which the ROLLBACK
\* undid, in a call whose categories phase committed a category.
C3_Witness ==
    \E p \in Providers :
        /\ Logged(p, Ev("movie", "write", "fail"))
        /\ Logged(p, Ev("movie", "rollback", "undo"))
        /\ Logged(p, Ev("categories", "commit", "ok"))
        /\ DOMAIN run[p].categoryMap # {}
        /\ run[p].pc = "fetch"

(* C4: when a statement of the cleanup phase fails and the catch block has *)
(* run, the whole catalog is as it was when the cleanup began: every       *)
(* deletion of the cleanup is undone and what the earlier phases of the    *)
(* call committed is still stored.                                         *)
C4_CleanupRollbackIsolated ==
    [][ \A p \in Providers :
          (run[p].pc = "clRollback" /\ run'[p].pc # "clRollback") =>
              Rows(db') = Rows(run[p].mark)
      ]_vars

\* A cleanup statement failed after a deletion, which the ROLLBACK undid,
\* in a call whose movies phase had committed a relation.
C4_Witness ==
    \E p \in Providers :
        /\ run[p].pc = "done"
        /\ Failed(p, "cleanup")
        /\ Logged(p, Ev("cleanup", "rollback", "undo"))
        /\ Logged(p, Ev("movie", "commit", "ok"))
        /\ \E r \in db.rel["movie"] :
              r.provider = p /\ r.lastSeen = run[p].scanStartTime

(* C5: an entity (movie, series or episode) leaves the store only at a     *)
(* moment when no relation of any provider references it; the one other    *)
(* way a row disappears is a ROLLBACK undoing an insert that was never     *)
(* committed.                                                              *)
C5_DeleteOnlyUnreferenced ==
    [][ \A k \in EntKinds : \A e \in db.ent[k] :
          e.id \notin EntityIds(db', k) =>
              \/ \A r \in db.rel[k] : r.entity # e.id
              \/ /\ tx.active
                 /\ db' = tx.snap
                 /\ e.id \notin EntityIds(tx.snap, k)
      ]_vars

\* The cleanup of one provider deleted an orphaned episode while a movie
\* referenced by a relation of another provider stayed stored.
C5_Witness ==
    \E p \in Providers, q \in Providers :
        /\ p # q
        /\ run[p].pc = "done"
        /\ Logged(p, Ev("cleanup", "commit", "ok"))
        /\ EntityIds(run[p].mark, "episode") # {}
        /\ db.ent["episode"] = {}
        /\ \E r \in db.rel["movie"] :
              r.provider = q /\ r.entity \in EntityIds(db, "movie")

RelsOf(d, k, p) == { r \in d.rel[k] : r.provider = p }

AllCommitted(p) ==
    /\ run[p].pc = "done"
    /\ Logged(p, Ev("movie", "commit", "ok"))
    /\ Logged(p, Ev("series", "commit", "ok"))
    /\ Logged(p, Ev("cleanup", "commit", "ok"))

(* C6: after a call for provider p in which the movies, series and cleanup *)
(* phases committed, the movie and series relations of p are exactly one   *)
(* per native id of that call's listing, each with lastSeen equal to the   *)
(* call's scanStartTime, and no movie or series without a relation is left.*)
C6_RelationsAreTheFeed ==
    \A p \in Providers :
        AllCommitted(p) =>
            \A k \in Kinds :
                /\ { r.native : r \in RelsOf(db, k, p) } = run[p].natives[k]
                /\ Cardinality(RelsOf(db, k, p))
                       = Cardinality(run[p].natives[k])
                /\ \A r \in RelsOf(db, k, p) :
                       r.lastSeen = run[p].scanStartTime
                /\ \A e \in db.ent[k] :
                       \E r \in db.rel[k] : r.entity = e.id

\* A later call whose movie listing no longer holds an earlier movie: its
\* relation and its entity are gone, the series of the listing is linked.
C6_Witness ==
    \E p \in Providers :
        /\ AllCommitted(p)
        /\ \E i \in issued :
              /\ i.k = "movie"
              /\ i.uid = ProviderUniqueId("movie", p, <<"10">>)
              /\ i.id \notin EntityIds(db, "movie")
              /\ i.id \in EntityIds(run[p].mark, "movie")
        /\ RelsOf(db, "movie", p) = {}
        /\ RelsOf(db, "series", p) # {}

(* C7: in the cleanup phase every orphan deletion comes after the stale-   *)
(* relation deletions of all three relation tables, and all the deletions  *)
(* run inside the one transaction the phase opened.                        *)
C7_StaleBeforeOrphan ==
    \A p \in Providers :
        LET log == run[p].log
            stmts == { i \in 1..Len(log) :
                         log[i].ph = "cleanup"
                             /\ log[i].ev \in {"stale", "orphan"} }
        IN  /\ \A i \in stmts :
                  /\ log[i].ev = "orphan" =>
                        \A k \in EntKinds : \E j \in 1..(i - 1) :
                            log[j] = Ev("cleanup", "stale", k)
                  /\ \E b \in 1..(i - 1) :
                        /\ log[b] = Ev("cleanup", "begin", "ok")
                        /\ \A j \in (b + 1)..(i - 1) : j \in stmts
            /\ run[p].pc \in {"clStmt", "clCommit"} => tx.active

\* A cleanup that ran its six deletions and committed.
C7_Witness ==
    \E p \in Providers :
        /\ run[p].pc = "done"
        /\ Logged(p, Ev("cleanup", "commit", "ok"))
        /\ \A k \in EntKinds :
              /\ Logged(p, Ev("cleanup", "stale", k))
              /\ Logged(p, Ev("cleanup", "orphan", k))

(* C8, as claimed: a (kind, provider, native id) is given the same row id  *)
(* at every insert, in every sequence of calls.                            *)
C8_SameIdForever ==
    \A a \in issued, b \in issued :
        (a.k = b.k /\ a.uid = b.uid) => a.id = b.id

(* C8, amended: as long as the row of a provider-unique id is stored, no   *)
(* step gives that provider-unique id another row id; a new id is handed   *)
(* out only after the row has been deleted.                                *)
C8_IdKeptWhileStored ==
    [][ \A k \in Kinds : \A e \in db.ent[k] : \A e2 \in db'.ent[k] :
          e2.uid = e.uid => e2.id = e.id
      ]_vars

\* A later call met a native id whose row an earlier call had stored, and
\* reused the row id.
C8_Witness ==
    \E p \in Providers :
        /\ run[p].pc = "relation"
        /\ \E r \in db.rel[run[p].kind] :
              /\ r.provider = p
              /\ r.entity = run[p].entityId
              /\ r.lastSeen < run[p].scanStartTime
              /\ r.native = run[p].rows[run[p].idx].stream_id

WithoutLastSeen(R) ==
    { [provider |-> r.provider, entity |-> r.entity, native |-> r.native,
       ext |-> r.ext] : r \in R }

(* C9: when a call that reported no failure follows, for the same provider *)
(* and against the same four listings, a call that reported no failure,    *)
(* the movies and series stored after it are the same rows with the same   *)
(* ids and fields, and the relations are the same rows up to lastSeen.     *)
C9_Idempotent ==
    \A p \in Providers :
        (RanClean(run[p]) /\ prev[p].valid /\ prev[p].ok) =>
            \A k \in Kinds :
                /\ db.ent[k] = prev[p].db.ent[k]
                /\ WithoutLastSeen(db.rel[k])
                       = WithoutLastSeen(prev[p].db.rel[k])
                /\ Cardinality(db.rel[k]) = Cardinality(prev[p].db.rel[k])

\* The second call has returned; a movie and a series are stored, and their
\* relations carry the second call's timestamp.
C9_Witness ==
    \E p \in Providers :
        /\ RanClean(run[p]) /\ prev[p].valid /\ prev[p].ok
        /\ db.ent["movie"] # {} /\ db.ent["series"] # {}
        /\ \A k \in Kinds : \A r \in db.rel[k] :
              /\ r.lastSeen = run[p].scanStartTime
              /\ \E r0 \in prev[p].db.rel[k] : r0.lastSeen < r.lastSeen

(* C10: a call has one scanStartTime: every relation it writes carries it  *)
(* as lastSeen, however far the clock has moved on, and a committed        *)
(* cleanup has deleted, from each of the three relation tables, exactly    *)
(* the relations of the provider whose lastSeen is before it.              *)
C10_SingleTimestamp ==
    \A p \in Providers :
        run[p].pc # "idle" =>
            /\ \A k \in Kinds : \A r \in RelsOf(db, k, p) :
                  /\ r.lastSeen <= run[p].scanStartTime
                  /\ r \notin run[p].mark.rel[k] =>
                        r.lastSeen = run[p].scanStartTime
            /\ (run[p].pc = "done" /\ Logged(p, Ev("cleanup", "commit", "ok")))
                  => \A k \in EntKinds : \A r \in RelsOf(run[p].mark, k, p) :
                        r \in db.rel[k] <=>
                            ~(r.lastSeen < run[p].scanStartTime)

\* The clock has moved past scanStartTime; the committed cleanup kept the
\* movie relation written by this call and deleted an earlier episode relation.
C10_Witness ==
    \E p \in Providers :
        /\ run[p].pc = "done"
        /\ Logged(p, Ev("cleanup", "commit", "ok"))
        /\ now > run[p].scanStartTime
        /\ \E r \in RelsOf(db, "movie", p) :
              r.lastSeen = run[p].scanStartTime
        /\ RelsOf(run[p].mark, "episode", p) # {}
        /\ RelsOf(db, "episode", p) = {}

PhaseRank(ph) ==
    CASE ph = "entry" -> 0 [] ph = "categories" -> 1 [] ph = "movie" -> 2
      [] ph = "series" -> 3 [] ph = "cleanup" -> 4 [] ph = "end" -> 5

\* log[m] ends a transaction: a COMMIT or a ROLLBACK that succeeded.
EndsTx(e) ==
    \/ e.ev = "commit" /\ e.arg = "ok"
    \/ e.ev = "rollback" /\ e.arg \in {"undo", "noop"}

(* C11: what a call does is ordered categories, movies, series, cleanup;   *)
(* no phase fetches or opens its transaction twice; and whenever a phase   *)
(* fetches or opens its transaction, every transaction opened earlier in   *)
(* the call has been committed or rolled back.                             *)
C11_PhasesInOrder ==
    \A p \in Providers :
        LET log == run[p].log
            at(ph, ev) == { i \in 1..Len(log) :
                              log[i].ph = ph /\ log[i].ev = ev }
        IN  /\ \A i \in 1..Len(log) : \A j \in i..Len(log) :
                  PhaseRank(log[i].ph) <= PhaseRank(log[j].ph)
            /\ \A ph \in {"categories", "movie", "series", "cleanup"} :
                  /\ Cardinality(at(ph, "begin")) <= 1
                  /\ Cardinality(at(ph, "fetch"))
                        <= (IF ph = "categories" THEN 2 ELSE 1)
            /\ \A i \in 1..Len(log) :
                  log[i].ev \in {"fetch", "begin"} =>
                      \A j \in 1..(i - 1) :
                          (log[j].ev = "begin" /\ log[j].arg = "ok") =>
                              \E m \in (j + 1)..(i - 1) : EndsTx(log[m])
            /\ run[p].pc \in {"fetchVodCats", "fetchSeriesCats", "catBegin",
                              "fetch", "begin", "clBegin"} => ~tx.active

\* A call that committed all four phases.
C11_Witness ==
    \E p \in Providers :
        /\ run[p].pc = "done"
        /\ \A ph \in {"categories", "movie", "series", "cleanup"} :
              Logged(p, Ev(ph, "commit", "ok"))

\* One provider on a server whose sink may throw.
InitSink ==
    InitAt([providers |-> {ProvA}, maxRuns |-> MaxRuns,
            fixed |-> FALSE, plan |-> NoPlan, sink |-> TRUE,
            overlap |-> FALSE], 0)

SpecSink == InitSink /\ [][Next]_vars

\* The call of p was started with credentials the entry code rejects.
BadCredentials(p) == \E i \in 1..Len(run[p].log) : run[p].log[i].ph = "entry"

NoFetch(p) ==
    \A ph \in {"categories", "movie", "series"} : ~Has(p, ph, "fetch")

(* C12: a call started with missing or malformed credentials, a server     *)
(* value that is not a valid URL included, makes no provider request,      *)
(* leaves the store as it was and reports an error to the sink.            *)
C12_BadCredentialsReported ==
    \A p \in Providers :
        BadCredentials(p) =>
            /\ NoFetch(p)
            /\ db = run[p].mark
            /\ Logged(p, Status("entry", "error"))

\* The call of p met a failure: bad credentials, a failed fetch, a failed
\* statement of the store.
MetFailure(p) ==
    \/ BadCredentials(p)
    \/ \E ph \in {"categories", "movie", "series", "cleanup"} : Failed(p, ph)

(* C13: a call that met a failure has made at least one sendStatus call of *)
(* severity 'error' when it ends.                                          *)
C13_FailuresReported ==
    \A p \in Providers :
        (Settled(p) /\ MetFailure(p)) =>
            \E i \in 1..Len(run[p].log) :
                run[p].log[i].ev = "status" /\ run[p].log[i].arg = "error"

(* C14: whether or not the sink throws, a call with good credentials in    *)
(* which no fetch and no statement of the store fails goes through its     *)
(* phases to the end and commits its cleanup.                              *)
C14_SinkNeverMatters ==
    \A p \in Providers :
        (Settled(p) /\ ~MetFailure(p)) =>
            Logged(p, Ev("cleanup", "commit", "ok"))

----------------------------------------------------------------------------
\* The entities of kind k a step writes: the rows of the table after it
\* that were not there, or not with these values, before it.
WrittenBy(k) == db'.ent[k] \ db.ent[k]

\* The key the row's category is looked up with, String(category_id).
CategoryKey(row) ==
    IF row.category_id = None THEN "undefined" ELSE row.category_id

\* The playlist entry names no group.
NoGroupTitle(e) ==
    \/ "group-title" \notin DOMAIN e.attributes
    \/ e.attributes["group-title"] = ""

\* C15: every movie or series row that a statement of refreshVodContent or
\* of processM3uVod inserts or updates has a category name that is not
\* empty, and that name is 'VOD' (movies) or 'Series' (series) when the
\* feed row's category id is not in the call's merged map, or when the
\* playlist entry has no group-title.
C15_CategoryNameNeverEmpty ==
    [][ \A p \in Providers :
          run[p].pc \in {"entity", "m3uEntity"} =>
            LET k == run[p].kind
                row == run[p].rows[run[p].idx]
                generic == IF k = "movie" THEN "VOD" ELSE "Series"
            IN  \A e \in WrittenBy(k) :
                  /\ e.category_name \notin {"", None}
                  /\ (/\ run[p].pc = "entity"
                      /\ CategoryKey(row) \notin DOMAIN run[p].categoryMap)
                        => e.category_name = generic
                  /\ (run[p].pc = "m3uEntity" /\ NoGroupTitle(row))
                        => e.category_name = generic ]_vars

\* A playlist entry without a group has just been stored as a series named
\* 'Series', in a store where an earlier call of refreshVodContent left a
\* movie under 'VOD'.
C15_Witness ==
    \E p \in Providers :
        /\ run[p].pc = "m3uRelation"
        /\ run[p].kind = "series"
        /\ run[p].found.movie = << >>
        /\ NoGroupTitle(run[p].rows[run[p].idx])
        /\ \E e \in db.ent["series"] \ run[p].mark.ent["series"] :
              e.id = run[p].entityId /\ e.category_name = "Series"
        /\ \E e \in db.ent["movie"] : e.category_name = "VOD"

----------------------------------------------------------------------------
\* The (id, VOD name, Series name) of the category ids that the provider
\* lists in both category listings under different names; the Series name
\* is the one of the last Series row with that id.
Collisions ==
    LET vod == ItemsOf(scope.plan.vodCats)
        ser == ItemsOf(scope.plan.seriesCats)
    IN  { <<vod[i].category_id, vod[i].category_name, ser[j].category_name>> :
            <<i, j>> \in
              { ij \in (1..Len(vod)) \X (1..Len(ser)) :
                  /\ vod[ij[1]].category_id # None
                  /\ vod[ij[1]].category_id = ser[ij[2]].category_id
                  /\ vod[ij[1]].category_name # ser[ij[2]].category_name
                  /\ \A h \in (ij[2] + 1)..Len(ser) :
                        ser[h].category_id # ser[ij[2]].category_id } }

\* The row of table k the loop's last entity statement wrote.
Current(p) ==
    { e \in db.ent[run[p].kind] : e.id = run[p].entityId }

\* C16: when a category id is in the VOD category list and in the Series
\* category list under different names, the merged map of a call whose
\* Categories phase committed holds the Series name for that id, and the
\* movie or series row written for a feed row with that category id is
\* given the Series name.
C16_SeriesNameWins ==
    \A p \in Providers : \A c \in Collisions :
        /\ Logged(p, Ev("categories", "commit", "ok")) =>
              /\ c[1] \in DOMAIN run[p].categoryMap
              /\ run[p].categoryMap[c[1]] = c[3]
        /\ (/\ run[p].pc = "relation"
            /\ run[p].rows[run[p].idx].category_id = c[1]) =>
              \A e \in Current(p) : e.category_name = c[3]

\* Category 5 is "Action" in the VOD list and "Drama" in the Series list,
\* and a movie of category 5 has just been written as "Drama".
C16_Witness ==
    \E p \in Providers :
        /\ <<"5", "Action", "Drama">> \in Collisions
        /\ run[p].pc = "relation"
        /\ run[p].kind = "movie"
        /\ run[p].rows[run[p].idx].category_id = "5"
        /\ \E e \in Current(p) : e.category_name = "Drama"

----------------------------------------------------------------------------
\* The category ids whose row is committed.
CommittedCats ==
    IF tx.active THEN DOMAIN tx.snap.cats ELSE DOMAIN db.cats

\* C17: no step changes the name a category id is stored with, and a
\* category row that is committed stays in the store with its name, whatever
\* names later feeds give that id.
C17_StoredNameKept ==
    [][ /\ \A id \in DOMAIN db.cats \cap DOMAIN db'.cats :
              db'.cats[id] = db.cats[id]
        /\ \A id \in CommittedCats :
              id \in DOMAIN db'.cats /\ db'.cats[id] = db.cats[id] ]_vars

\* Category 5 is stored as "Action", and a later call whose feed names it
\* "Drama" has committed its Categories phase.
C17_Witness ==
    \E p \in Providers :
        /\ "5" \in DOMAIN db.cats
        /\ db.cats["5"] = "Action"
        /\ Logged(p, Ev("categories", "commit", "ok"))
        /\ "5" \in DOMAIN run[p].categoryMap
        /\ run[p].categoryMap["5"] = "Drama"

----------------------------------------------------------------------------
\* The category of the feed row at hand is stored under one name and is in
\* the call's merged map under another.
Renamed(p) ==
    LET key == CategoryKey(run[p].rows[run[p].idx])
    IN  /\ key \in DOMAIN db.cats
        /\ key \in DOMAIN run[p].categoryMap
        /\ db.cats[key] # run[p].categoryMap[key]

\* C18: when the category id of a feed row is stored under one name and the
\* call's merged map has it under another, the movie or series row written
\* for that feed row carries the merged map's name.
C18_MapNamesEntities ==
    \A p \in Providers :
        (run[p].pc = "relation" /\ Renamed(p)) =>
            \A e \in Current(p) :
                e.category_name =
                    run[p].categoryMap[CategoryKey(run[p].rows[run[p].idx])]

\* Category 5 is stored as "Action", the feed calls it "Drama", and a row
\* of category 5 has just been written as "Drama".
C18_Witness ==
    \E p \in Providers :
        /\ run[p].pc = "relation"
        /\ Renamed(p)
        /\ db.cats["5"] = "Action"
        /\ run[p].rows[run[p].idx].category_id = "5"
        /\ \E e \in Current(p) : e.category_name = "Drama"

----------------------------------------------------------------------------
\* One provider, on a server whose time zone is UTC or west of it.
InitTz ==
    \E z \in TZOffsets :
        InitAt([providers |-> {ProvA}, maxRuns |-> MaxRuns, fixed |-> FALSE,
                plan |-> NoPlan, sink |-> FALSE, overlap |-> FALSE], z)

SpecTz == InitTz /\ [][Next]_vars

\* The year of a "(YYYY)" token of the name, NoYear when it has none.
YearInName(name) ==
    IF YearMatchAt(name) # 0 THEN ParseYear(name, YearMatchAt(name))
    ELSE NoYear

\* C19: the year stored for a movie or series row is the calendar year of
\* the feed row's release date when it has one, otherwise the number of a
\* "(YYYY)" token of its name, otherwise unset ("Heat" released on
\* 1996-01-01 is stored with year 1996).
C19_YearOfRelease ==
    \A p \in Providers :
        run[p].pc = "relation" =>
            LET row == run[p].rows[run[p].idx]
            IN  \A e \in Current(p) :
                    e.year = IF row.releaseDate # NoDate
                             THEN row.releaseDate.y
                             ELSE YearInName(row.name)

----------------------------------------------------------------------------
\* One provider whose movie and series listings hold up to MaxRows rows.
PlansRows ==
    [vodCats : CatBodies, seriesCats : CatBodies,
     movie : { [array |-> TRUE, items |-> r] :
                 r \in SeqsUpTo(MovieRows, MaxRows) },
     series : { [array |-> TRUE, items |-> r] :
                  r \in SeqsUpTo(SeriesRows, MaxRows) }]

InitRows ==
    \E plan \in PlansRows :
        InitWith([providers |-> {ProvA}, maxRuns |-> MaxRunsRows,
                  fixed |-> TRUE, plan |-> plan])

SpecRows == InitRows /\ [][Next]_vars

\* The native ids of the rows of a listing that have one.
Usable(rows) ==
    { rows[i].stream_id : i \in { j \in 1..Len(rows) :
                                    rows[j].stream_id # NoId } }

\* C20: when the loop over a movie or series listing is through, the rows
\* without a native id have caused no entity insert, no entity update and
\* no relation write, and every row with a native id, before or after such
\* a row, has its relation written.
C20_SkippedRowsOnly ==
    \A p \in Providers :
        run[p].pc = "commit" =>
            LET k == run[p].kind
                ids == Usable(run[p].rows)
            IN  /\ { x.native : x \in
                       { y \in db.rel[k] :
                           /\ y.provider = p
                           /\ y.lastSeen = run[p].scanStartTime } } = ids
                /\ \A e \in db.ent[k] \ run[p].mark.ent[k] :
                       \E n \in ids : e.uid = ProviderUniqueId(k, p, n)
                /\ \A x \in db.rel[k] \ run[p].mark.rel[k] : x.native \in ids

\* The loop is through a listing whose first row has no native id and
\* whose second row has one, and the second row's relation is written.
C20_Witness ==
    \E p \in Providers :
        /\ run[p].pc = "commit"
        /\ Len(run[p].rows) = 2
        /\ run[p].rows[1].stream_id = NoId
        /\ run[p].rows[2].stream_id # NoId
        /\ \E x \in db.rel[run[p].kind] :
              /\ x.provider = p
              /\ x.native = run[p].rows[2].stream_id
              /\ x.lastSeen = run[p].scanStartTime

----------------------------------------------------------------------------
\* The provider-unique ids of the rows of table k that the relations of
\* store d for (provider, native) point to.
KeysOf(d, k, provider, native) ==
    { e.uid : e \in { f \in d.ent[k] :
                        \E x \in d.rel[k] : /\ x.provider = provider
                                            /\ x.native = native
                                            /\ x.entity = f.id } }

\* C21: the provider-unique id of a (kind, provider, native id) is the same
\* in every call and on both paths - whatever step rewrites the relation of
\* a (provider, native id), the row it points to has the key of the row it
\* pointed to before - and no movie has the key of a series.
C21_KeyIsStable ==
    /\ [][ \A k \in Kinds : \A x \in db.rel[k] :
             \A u \in KeysOf(db, k, x.provider, x.native) :
               \A v \in KeysOf(db', k, x.provider, x.native) : u = v ]_vars
    /\ [](\A m \in db.ent["movie"] : \A e \in db.ent["series"] :
             m.uid # e.uid)

\* processM3uVod has found the movie of a playlist entry under the key that
\* an earlier call of refreshVodContent stored it with, next to a series.
C21_Witness ==
    \E p \in Providers :
        /\ run[p].pc = "m3uRelation"
        /\ run[p].kind = "movie"
        /\ db.ent["series"] # {}
        /\ \E e \in run[p].mark.ent["movie"] :
              /\ e.id = run[p].entityId
              /\ e.uid \in KeysOf(run[p].mark, "movie", p,
                                  M3uNativeId("movie",
                                              run[p].rows[run[p].idx]))

----------------------------------------------------------------------------
\* Playlists of one entry: a metadata line and the URL after it.
EntryTexts ==
    { <<a, u>> :
        <<a, u>> \in {ExtInfKids, ExtInfBare, ExtInfNoGroup}
                        \X {UrlMovie, UrlSeries} }

\* Two providers whose catalogs are rebuilt from their API or from a
\* playlist of one entry, with episodes being stored between the calls.
NextShared ==
    \/ Next
    \/ \E p \in Providers, content \in EntryTexts : M3uStart(p, content)
    \/ \E p \in Providers : M3uBegin(p)
    \/ \E p \in Providers : M3uSelect(p)
    \/ \E p \in Providers : M3uEntity(p)
    \/ \E p \in Providers : M3uRelation(p)
    \/ \E p \in Providers : M3uCommit(p)
    \/ \E p \in Providers : M3uRollback(p)
    \/ \E p \in Providers : StoreEpisode(p)

InitShared ==
    InitWith([providers |-> Providers, maxRuns |-> MaxRunsM3u,
              fixed |-> FALSE, plan |-> NoPlan])

SpecShared == InitShared /\ [][NextShared]_vars

\* The relation rows of store d that are not provider p's.
OthersRelations(d, p) ==
    [k \in EntKinds |-> { x \in d.rel[k] : x.provider # p }]

\* C22: a step of a call for provider p, of refreshVodContent or of
\* processM3uVod, leaves every relation row of the other providers as it
\* is: what it inserts, replaces or deletes are rows of p.
C22_OwnRelationsOnly ==
    [][ \A p \in Providers :
          (run[p].pc # "idle" \/ run'[p].pc # "idle") =>
              OthersRelations(db', p) = OthersRelations(db, p) ]_vars

\* A call for one provider is through its cleanup, in which it deleted
\* relations of its own, and the other provider has relations in the store.
C22_Witness ==
    \E p \in Providers : \E q \in Providers \ {p} :
        /\ run[p].pc = "done"
        /\ Logged(p, Ev("cleanup", "commit", "ok"))
        /\ \E k \in EntKinds : \E x \in run[p].mark.rel[k] :
              x.provider = p /\ x \notin db.rel[k]
        /\ \E k \in EntKinds : \E x \in db.rel[k] : x.provider = q

----------------------------------------------------------------------------
(* The parser of processM3uVod, lines 265-294, on its own *)

\* A metadata line whose title holds a comma: Heat, 2
ExtInfTitleComma == <<"#EXTINF:", "-1", ",">> \o NamePlain \o <<",", " ", "2">>

\* A metadata line whose group-title holds a comma: group-title="Kids,TV"
ExtInfGroupComma ==
    <<"#EXTINF:", "-1", " ", "group-title", "=\"", "Kids", ",", "TV", "\"",
      ",">> \o NamePlain

ParseLines == M3uLines \cup {ExtInfTitleComma, ExtInfGroupComma}

Texts == SeqsUpTo(ParseLines, MaxLines)

\* Lines 265-294 applied to a text: the two lists it leaves.
ParseText(p, content) ==
    /\ p \in scope.providers
    /\ run[p].pc = "idle"
    /\ Step(p, [IdleRun EXCEPT !.pc = "parsed", !.text = content,
                               !.found = ParseM3u(content)])
    /\ UNCHANGED <<db, tx, now, runs, faults, tz, scope, prev, issued>>

NextParse == \E p \in Providers, content \in Texts : ParseText(p, content)

InitParse ==
    InitWith([providers |-> {ProvA}, maxRuns |-> 0, fixed |-> FALSE,
              plan |-> NoPlan])

SpecParse == InitParse /\ [][NextParse]_vars

\* line.startsWith('#EXTINF:')
IsMetadata(line) == Len(line) > 0 /\ line[1] = "#EXTINF:"

\* line.trim().startsWith('http')
IsUrl(line) == Len(Trim(line)) > 0 /\ Trim(line)[1] = "http"

\* The records the parser emitted, movies and series.
Records(p) ==
    { run[p].found.movie[i] : i \in 1..Len(run[p].found.movie) }
        \cup { run[p].found.series[i] : i \in 1..Len(run[p].found.series) }

\* C23: the parser emits a record only for a metadata line with a URL line
\* directly after it; a pending entry whose next line is neither a metadata
\* line nor a URL line is discarded.
C23_UrlDirectlyAfter ==
    \A p \in Providers :
        run[p].pc = "parsed" =>
            \A e \in Records(p) :
                \E i \in 1..(Len(run[p].text) - 1) :
                    /\ IsMetadata(run[p].text[i])
                    /\ IsUrl(run[p].text[i + 1])
                    /\ e.url = Trim(run[p].text[i + 1])
                    /\ e.attributes =
                          ScanAttributes(run[p].text[i], 1, << >>)

----------------------------------------------------------------------------
\* C24: in processM3uVod, once the entity statement of a playlist entry is
\* through, the row with the entry's provider-unique id - inserted now or
\* stored before - carries the entry's name, year, logo and category name.
C24_M3uRefreshesFields ==
    \A p \in Providers :
        run[p].pc = "m3uRelation" =>
            LET f == M3uFields(run[p].kind, run[p].rows[run[p].idx])
            IN  \A e \in Current(p) :
                    /\ e.name = f.name
                    /\ e.year = f.year
                    /\ e.logo = f.logo
                    /\ e.category_name = f.category_name

----------------------------------------------------------------------------
(* Listings and playlists with two entries, on a migrated store *)

\* A metadata line whose title is the one of ExtInfBare in lower case.
ExtInfLower == <<"#EXTINF:", "-1", ",", "h", "e", "a", "t">>

\* Playlists of two entries.
PairTexts ==
    { <<a, u, b, v>> :
        <<a, u, b, v>> \in
            {ExtInfBare, ExtInfLower, ExtInfKids} \X {UrlMovie, UrlSeries}
                \X {ExtInfBare, ExtInfLower, ExtInfKids}
                \X {UrlMovie, UrlSeries} }

\* Listings of MaxRows movies and MaxRows series.
PlansPairs ==
    { pl \in PlansRows :
        /\ pl.vodCats = pl.seriesCats
        /\ Len(pl.movie.items) = MaxRows
        /\ Len(pl.series.items) = MaxRows }

\* The store after the migration of lines 35-49 has been through once.
Migrated == [EmptyDb EXCEPT !.cols = [k \in Kinds |-> TRUE]]

InitPairs ==
    /\ db = Migrated
    /\ tx = NoTx
    /\ run = [p \in Providers |-> IdleRun]
    /\ now = 0
    /\ runs = 0
    /\ faults = 0
    /\ tz = 0
    /\ \E plan \in PlansPairs :
          scope = [providers |-> {ProvA}, maxRuns |-> MaxRunsRows,
                   fixed |-> TRUE, plan |-> plan, sink |-> FALSE,
                   overlap |-> FALSE]
    /\ prev = [p \in Providers |-> NoPrev]
    /\ issued = {}

NextPairs ==
    \/ Next
    \/ \E p \in Providers, content \in PairTexts : M3uStart(p, content)
    \/ \E p \in Providers : M3uBegin(p)
    \/ \E p \in Providers : M3uSelect(p)
    \/ \E p \in Providers : M3uEntity(p)
    \/ \E p \in Providers : M3uRelation(p)
    \/ \E p \in Providers : M3uCommit(p)
    \/ \E p \in Providers : M3uRollback(p)

SpecPairs == InitPairs /\ [][NextPairs]_vars

\* The entry or feed row the loop is at has the native id of an earlier one
\* of the same list.
Duplicate(p) ==
    LET k == run[p].kind
        native(i) == IF run[p].pc = "m3uRelation"
                     THEN M3uNativeId(k, run[p].rows[i])
                     ELSE run[p].rows[i].stream_id
    IN  \E i \in 1..(run[p].idx - 1) :
            native(i) # NoId /\ native(i) = native(run[p].idx)

\* The name of the feed row or playlist entry the loop is at.
NameAtHand(p) == run[p].rows[run[p].idx].name

\* C25: no table ever holds two movie rows, or two series rows, with the
\* same provider-unique id: the entity statement of a later row with the
\* native id of an earlier one of the same list inserts nothing, and
\* updates the row the earlier one was stored in.
C25_OneRowPerKey ==
    /\ \A k \in Kinds : \A e \in db.ent[k] : \A f \in db.ent[k] :
           e.uid = f.uid => e = f
    /\ \A p \in Providers :
           (run[p].pc \in {"relation", "m3uRelation"} /\ Duplicate(p)) =>
               \E e \in Current(p) : e.name = NameAtHand(p)

----------------------------------------------------------------------------
\* The COMMIT of the movies or series phase of p's call succeeds.
Committing(p) == run[p].pc = "commit" /\ tx.active /\ ~tx'.active

\* After the step the store holds, for row i of the listing at hand, a
\* relation of p with the row's native id, pointing to the row stored under
\* the row's key, stamped with the call's scan time and, for a movie, with
\* the row's extension or 'mp4'.
RelationLeft(p, i) ==
    LET k == run[p].kind
        row == run[p].rows[i]
    IN  \E x \in db'.rel[k] :
            /\ x.provider = p
            /\ x.native = row.stream_id
            /\ x.lastSeen = run[p].scanStartTime
            /\ \E e \in db'.ent[k] :
                  /\ e.id = x.entity
                  /\ e.uid = <<k, "_">> \o p \o <<"_">> \o row.stream_id
            /\ k = "movie" =>
                  x.ext = IF row.container_extension = None THEN "mp4"
                          ELSE row.container_extension

\* The rows of the listing at hand that have a native id.
UsableRows(p) ==
    { i \in 1..Len(run[p].rows) : run[p].rows[i].stream_id # NoId }

\* C26 as stated: a committed movies or series phase leaves such a relation
\* for every row of the listing that has a native id.
C26_EveryRowHasRelation ==
    [][ \A p \in Providers :
          Committing(p) => \A i \in UsableRows(p) : RelationLeft(p, i) ]_vars

\* C26, amended: a committed movies or series phase leaves such a relation
\* for every row that is the last one of the listing with its native id.
C26_LastRowHasRelation ==
    [][ \A p \in Providers :
          Committing(p) =>
            \A i \in UsableRows(p) :
              (\A j \in (i + 1)..Len(run[p].rows) :
                  run[p].rows[j].stream_id # run[p].rows[i].stream_id)
                => RelationLeft(p, i) ]_vars

\* The movies phase of a listing of two rows with the same native id, the
\* first with extension 'mkv' and the second with none, has committed: the
\* relation of that native id has extension 'mp4'.
C26_Witness ==
    \E p \in Providers :
        LET rows == scope.plan.movie.items
        IN  /\ Logged(p, Ev("movie", "commit", "ok"))
            /\ Len(rows) = 2
            /\ rows[1].stream_id = rows[2].stream_id
            /\ rows[1].container_extension = "mkv"
            /\ rows[2].container_extension = None
            /\ \E x \in db.rel["movie"] :
                  /\ x.provider = p
                  /\ x.native = rows[2].stream_id
                  /\ x.lastSeen = run[p].scanStartTime
                  /\ x.ext = "mp4"
            /\ Cardinality(db.rel["movie"]) = 1

----------------------------------------------------------------------------
\* The places of a call at which a request to the provider is made next.
FetchPcs == {"fetchVodCats", "fetchSeriesCats", "fetch"}

\* The requests to the provider a step of p's call makes.
FetchesIn(p) ==
    { i \in (Len(run[p].log) + 1)..Len(run'[p].log) :
        run'[p].log[i].ev = "fetch" }

\* C27: no request to the provider is made while the call's transaction is
\* open: when a call is about to fetch, and throughout a step in which it
\* fetches, the connection has no transaction - the fetches of a phase are
\* over before its BEGIN, and its COMMIT or ROLLBACK is over before the
\* next phase fetches.
C27_NoFetchInTransaction ==
    /\ [](\A p \in Providers : run[p].pc \in FetchPcs => ~tx.active)
    /\ [][ \A p \in Providers :
             (run[p].pc # "idle" /\ FetchesIn(p) # {}) =>
                 ~tx.active /\ ~tx'.active ]_vars

\* The movies phase opened a transaction and rolled it back after a failed
\* write, and the call is about to fetch the series with no transaction open.
C27_Witness ==
    \E p \in Providers :
        /\ run[p].pc = "fetch"
        /\ run[p].kind = "series"
        /\ Logged(p, Ev("movie", "begin", "ok"))
        /\ Logged(p, Ev("movie", "write", "fail"))
        /\ ~tx.active

----------------------------------------------------------------------------
\* The text after the last comma of a line, trimmed.
AfterFinalComma(line) ==
    LET commas == { i \in 1..Len(line) : line[i] = "," }
    IN  IF commas = {} THEN <<"Untitled">>
        ELSE Trim(SubSeq(line, Greatest(commas) + 1, Len(line)))

\* C28: the display name of every record the parser emits is the text after
\* the final comma of the record's metadata line.
C28_NameAfterFinalComma ==
    \A p \in Providers :
        run[p].pc = "parsed" =>
            \A e \in Records(p) :
                \E i \in 1..Len(run[p].text) :
                    /\ IsMetadata(run[p].text[i])
                    /\ e.attributes =
                          ScanAttributes(run[p].text[i], 1, << >>)
                    /\ e.name = AfterFinalComma(run[p].text[i])

----------------------------------------------------------------------------
\* A display name in lower case with each run of whitespace as one
\* underscore.
SlugOf(name) ==
    LET keep == { i \in 1..Len(name) :
                    name[i] \notin White \/ i = 1 \/ name[i - 1] \notin White }
        at(n) == CHOOSE i \in keep :
                    Cardinality({ j \in keep : j < i }) = n - 1
    IN  [ n \in 1..Cardinality(keep) |->
            IF name[at(n)] \in White THEN "_" ELSE LowerCase(name[at(n)]) ]

\* The names of the series entries of the playlist p's call was given.
SeriesNames(p) ==
    { run[p].found.series[i].name : i \in 1..Len(run[p].found.series) }

\* C29: when processM3uVod is through its series, the provider's series
\* relations of this scan have the slugs of the entries' names as native
\* ids - the name in lower case, each run of whitespace as one underscore -
\* and each slug has one series row and one relation, also when entries with
\* different names share it.
C29_SlugMergesSeries ==
    \A p \in Providers :
        run[p].pc = "m3uCommit" =>
            /\ { x.native : x \in
                   { y \in db.rel["series"] :
                       /\ y.provider = p
                       /\ y.lastSeen = run[p].scanStartTime } }
                 = { SlugOf(n) : n \in SeriesNames(p) }
            /\ \A n \in SeriesNames(p) :
                 /\ Cardinality({ e \in db.ent["series"] :
                       e.uid = <<"series", "_">> \o p \o <<"_">> \o SlugOf(n) })
                      = 1
                 /\ Cardinality({ x \in db.rel["series"] :
                       x.provider = p /\ x.native = SlugOf(n) }) = 1

\* A playlist with the series "Heat" and "heat" has been gone through: the
\* store holds one series row and one series relation.
C29_Witness ==
    \E p \in Providers :
        /\ run[p].pc = "m3uCommit"
        /\ SeriesNames(p) = {NamePlain, <<"h", "e", "a", "t">>}
        /\ Cardinality(db.ent["series"]) = 1
        /\ Cardinality(db.rel["series"]) = 1
        /\ \E x \in db.rel["series"] : x.native = <<"h", "e", "a", "t">>

----------------------------------------------------------------------------
\* The ALTER TABLE statement p's call is at, if it is at one, and where the
\* call goes after it.
Migrating(p) ==
    CASE run[p].pc = "alterMovies" -> <<"movie", "alterSeries">>
      [] run[p].pc = "alterSeries" -> <<"series", "fetchVodCats">>
      [] OTHER -> <<"none", "none">>

\* C30: an ALTER TABLE that fails because the column is already there ends
\* nothing and reports nothing: the call goes on to the next statement - the
\* Categories phase after the second one - with the column in place, the
\* store as it was and no status sent, as after a migration that succeeded.
C30_DuplicateColumnIgnored ==
    [][ \A p \in Providers :
          (Migrating(p)[1] # "none" /\ db.cols[Migrating(p)[1]]) =>
              /\ run'[p].pc = Migrating(p)[2]
              /\ run'[p].log = run[p].log
              /\ db' = db
              /\ tx' = tx ]_vars

\* A second call has found both columns in place, left there by the first,
\* and is about to fetch the categories without having sent any status.
C30_Witness ==
    \E p \in Providers :
        /\ prev[p].valid
        /\ prev[p].db.cols["movie"]
        /\ prev[p].db.cols["series"]
        /\ run[p].pc = "fetchVodCats"
        /\ run[p].log = << >>

----------------------------------------------------------------------------
\* The relation rows of kind k that provider p had in store d are in the
\* store, each still pointing at a stored entity.
StillStored(d, k, p) ==
    \A r \in RelsOf(d, k, p) :
        /\ \E x \in db.rel[k] :
              SameRelationKey(x, r) /\ x.entity = r.entity
        /\ r.entity \in EntityIds(db, k)

\* C31: when the call of p has ended and its Movies phase failed - the
\* fetch, BEGIN, a write or COMMIT - the movie relations p had when the
\* call began, and the movies they point at, are still stored; and the same
\* for the series of a call whose Series phase failed.
C31_FailedPhaseKeepsContent ==
    \A p \in Providers :
        (Settled(p) /\ prev[p].valid) =>
            \A k \in Kinds :
                Failed(p, k) => StillStored(prev[p].db, k, p)

----------------------------------------------------------------------------
\* C32: a call that has reported an error of its Movies, Series or Cleanup
\* phase to the sink does not report the final 'success' status as well.
C32_SuccessOnlyWithoutError ==
    \A p \in Providers :
        (\E ph \in {"movie", "series", "cleanup"} :
            Logged(p, Status(ph, "error")))
            => ~Logged(p, Status("end", "success"))

----------------------------------------------------------------------------
(* Calls for different providers that overlap: a call may start while      *)
(* another is suspended at an await, and the statements of both go to the  *)
(* one connection in the order in which they are issued.                   *)

\* Listings that hold a category the call stores, a movie and a series.
PlansOverlap ==
    { pl \in Plans :
        /\ NextCat(ItemsOf(pl.vodCats), 1) <= Len(ItemsOf(pl.vodCats))
        /\ pl.seriesCats = NoBody
        /\ \A k \in Kinds : NativesOf(ItemsOf(pl[k])) # {} }

\* Two providers with such listings whose calls may overlap, on a store and
\* with providers that fail at nothing by themselves.
InitOverlap ==
    /\ db = EmptyDb
    /\ tx = NoTx
    /\ run = [p \in Providers |-> IdleRun]
    /\ now = 0
    /\ runs = 0
    /\ faults = MaxFaults
    /\ tz = 0
    /\ \E plan \in PlansOverlap :
          scope = [providers |-> Providers, maxRuns |-> MaxRuns,
                   fixed |-> TRUE, plan |-> plan, sink |-> FALSE,
                   overlap |-> TRUE]
    /\ prev = [p \in Providers |-> NoPrev]
    /\ issued = {}

SpecOverlap == InitOverlap /\ [][Next]_vars

\* Every relation row of store d points at an entity that d holds.
Referential(d) ==
    \A k \in EntKinds : \A r \in d.rel[k] : r.entity \in EntityIds(d, k)

\* The provider a movie or series row was inserted for: the second part of
\* its provider-unique id.
InsertedFor(e) == <<e.uid[3]>>

\* The rows of store d that calls for providers other than p write: their
\* relations, and the movies and series inserted for them.
OthersRows(d, p) ==
    [ rel |-> OthersRelations(d, p),
      ent |-> [k \in Kinds |-> { e \in d.ent[k] : InsertedFor(e) # p }] ]

\* The step is one of the call of p.
StepOf(p) == run'[p] # run[p]

\* With every call returned, no relation row is without its entity.
C33_FinalStoreReferential ==
    (\A p \in Providers : run[p].pc = "idle") => Referential(db)

\* A step of p that ends a transaction finds in it no uncommitted change to
\* the rows of the other providers.
C33_EndsOwnWritesOnly ==
    \A p \in Providers :
        (StepOf(p) /\ tx.active /\ ~tx'.active) =>
            OthersRows(db, p) = OthersRows(tx.snap, p)

\* A cleanup statement of p leaves the entity another call is about to link.
C33_OrphanCleanupSparesUnlinked ==
    \A p \in Providers : \A q \in Providers \ {p} :
        (StepOf(p) /\ run[p].pc = "clStmt" /\ run[q].pc = "relation") =>
            run[q].entityId \in EntityIds(db', run[q].kind)

\* C33: with calls for different providers overlapping, the store that is
\* left when all calls have returned has no relation row without its
\* entity; a COMMIT or ROLLBACK of one call ends a transaction that holds
\* no uncommitted change to the rows of another provider, so that it
\* neither commits nor discards them; and no statement of one call's
\* cleanup deletes the entity another call has inserted and is about to
\* link.
C33_OverlapIsolated ==
    /\ [] C33_FinalStoreReferential
    /\ [][C33_EndsOwnWritesOnly]_vars
    /\ [][C33_OrphanCleanupSparesUnlinked]_vars

----------------------------------------------------------------------------
\* The entities of store d that no relation row points at.
Orphans(d) ==
    [k \in EntKinds |->
        { e \in d.ent[k] : \A r \in d.rel[k] : r.entity # e.id }]

\* The step is the COMMIT of the Cleanup phase of p.
CleanupCommits(p) ==
    run[p].pc = "clCommit" /\ tx.active /\ ~tx'.active /\ db' = db

\* C34: between calls of refreshVodContent and processM3uVod that do not
\* overlap, whatever failed and was rolled back in them, every movie and
\* series relation points at a stored entity; and the store a Cleanup
\* phase commits holds no movie, series or episode without a relation.
C34_ReferencesAndNoOrphans ==
    /\ [] ((\A p \in Providers : run[p].pc = "idle") =>
             \A k \in Kinds : \A r \in db.rel[k] :
                 r.entity \in EntityIds(db, k))
    /\ [][ \A p \in Providers :
             CleanupCommits(p) =>
                 \A k \in EntKinds : Orphans(db')[k] = {} ]_vars

\* A call of refreshVodContent in which something failed has committed its
\* cleanup, which reaped the one episode there was; a playlist of provider
\* q was then read and committed, and its series relation is in the store.
C34_Witness ==
    \E q \in Providers :
        /\ run[q].pc = "done"
        /\ Logged(q, Ev("m3u", "commit", "ok"))
        /\ \E x \in db.rel["series"] :
              x.provider = q /\ x.native # <<"20">>
        /\ faults > 0
        /\ db.seq["episode"] > 0
        /\ db.ent["episode"] = {}

----------------------------------------------------------------------------
(* The provider-unique id of lines 116 / 177 / 312 / 348 as a function of  *)
(* the provider's id and the native id, both of which are strings the      *)
(* configuration and the provider choose.                                  *)

\* Provider ids, one of them with the separator in it: "1", "1_2".
ProviderIds == {<<"1">>, <<"1", "_", "2">>}

\* Native ids, one of them with the separator in it: "3", "2_3", "10".
NativeIds == {<<"3">>, <<"2", "_", "3">>, <<"10">>}

\* Lines 116-142 (177-203) for one row, on a connection without an open
\* transaction: the key is built, the entity is updated or inserted under
\* it, and the relation of (providerId, nativeId) is bound to that entity.
BindRow(k, providerId, nativeId) ==
    /\ now < MaxKeys
    /\ now' = now + 1
    /\ LET row == [ stream_id |-> nativeId, name |-> nativeId,
                    releaseDate |-> NoDate, plot |-> None, icon |-> None,
                    container_extension |-> None, category_id |-> None ]
           uid == ProviderUniqueId(k, providerId, nativeId)
           res == UpsertEntity(db, k, IdMapOf(db.ent[k]), uid,
                               EntityFields(k, << >>, row, tz))
       IN  /\ db' = UpsertRelation(res.db, k,
                       RelationRow(k, providerId, res.id, row, now + 1))
           /\ issued' = IF res.inserted
                         THEN issued \cup
                                {[k |-> k, uid |-> uid, id |-> res.id]}
                         ELSE issued
    /\ UNCHANGED <<tx, run, runs, faults, tz, scope, prev>>

NextKeys ==
    \E k \in Kinds, providerId \in ProviderIds, nativeId \in NativeIds :
        BindRow(k, providerId, nativeId)

\* A migrated store on which no call is started.
InitKeys ==
    /\ db = Migrated
    /\ tx = NoTx
    /\ run = [p \in Providers |-> IdleRun]
    /\ now = 0
    /\ runs = 0
    /\ faults = 0
    /\ tz = 0
    /\ scope = [providers |-> {}, maxRuns |-> 0, fixed |-> FALSE,
                plan |-> NoPlan, sink |-> FALSE, overlap |-> FALSE]
    /\ prev = [p \in Providers |-> NoPrev]
    /\ issued = {}

SpecKeys == InitKeys /\ [][NextKeys]_vars

\* C35: within a kind, two different pairs of provider id and native id
\* have different provider-unique ids, also when an id holds an underscore:
\* two relation rows with different pairs never point at the same entity
\* row.
C35_KeyIsInjective ==
    \A k \in Kinds : \A x \in db.rel[k] : \A y \in db.rel[k] :
        x.entity = y.entity => SameRelationKey(x, y)

----------------------------------------------------------------------------
\* One provider on a store that has been through the migration: playlists
\* can be read from the first call on.
InitLists ==
    /\ db = Migrated
    /\ tx = NoTx
    /\ run = [p \in Providers |-> IdleRun]
    /\ now = 0
    /\ runs = 0
    /\ faults = 0
    /\ tz = 0
    /\ scope = [providers |-> {ProvA}, maxRuns |-> MaxRunsM3u,
                fixed |-> FALSE, plan |-> NoPlan, sink |-> FALSE,
                overlap |-> FALSE]
    /\ prev = [p \in Providers |-> NoPrev]
    /\ issued = {}

SpecLists == InitLists /\ [][NextM3u]_vars

\* The call of p is one of processM3uVod.
IsM3u(p) == Len(run[p].log) > 0 /\ run[p].log[1].ph = "m3u"

\* The native ids of the entries of kind k of the playlist of p's call.
M3uNatives(p, k) ==
    { M3uNativeId(k, run[p].found[k][i]) : i \in 1..Len(run[p].found[k]) }

\* C36: from its first statement to its return, a call of processM3uVod
\* for p has removed nothing of what the store held when it began: every
\* entity row is there unchanged, every relation row is there or replaced
\* by a row of the same provider and native id, and the relation of a
\* native id that is not in the playlist is there as it was, with its
\* lastSeen.
C36_M3uDeletesNothing ==
    \A p \in Providers :
        IsM3u(p) =>
            \A k \in EntKinds :
                /\ run[p].mark.ent[k] \subseteq db.ent[k]
                /\ \A r \in run[p].mark.rel[k] :
                     /\ \E x \in db.rel[k] :
                          SameRelationKey(x, r) /\ x.entity = r.entity
                     /\ (k \in Kinds /\ r.native \notin M3uNatives(p, k))
                            => r \in db.rel[k]

\* A second playlist of p has been read and committed: it has a series and
\* no movie, and the movie relation an earlier playlist left is in the
\* store with the lastSeen of that earlier call, next to its movie.
C36_Witness ==
    \E p \in Providers :
        /\ run[p].pc = "done"
        /\ Logged(p, Ev("m3u", "commit", "ok"))
        /\ Len(run[p].found.series) > 0
        /\ Len(run[p].found.movie) = 0
        /\ \E r \in db.rel["movie"] :
              /\ r.provider = p
              /\ r.lastSeen < run[p].scanStartTime
              /\ \E e \in db.ent["movie"] :
                    e.id = r.entity /\ e.description = None

----------------------------------------------------------------------------
\* C37: when a write of a processM3uVod call has failed and the call has
\* ended, the catalog's rows are those the call found - no movie, series
\* or relation it wrote remains, the movies written before a failing series
\* write included - and an error was reported to the sink.
C37_M3uAllOrNothing ==
    \A p \in Providers :
        (IsM3u(p) /\ Settled(p) /\ Logged(p, Ev("m3u", "write", "fail"))) =>
            /\ Rows(db) = Rows(run[p].mark)
            /\ Logged(p, Status("m3u", "error"))

\* A playlist with a movie and a series: the movie and its relation were
\* written, the series was inserted, the series relation failed, and the
\* ROLLBACK has undone all of it.
C37_Witness ==
    \E p \in Providers :
        /\ run[p].pc = "done"
        /\ Logged(p, Ev("m3u", "write", "fail"))
        /\ Logged(p, Ev("m3u", "rollback", "undo"))
        /\ \E i \in issued : i.k = "movie"
        /\ \E i \in issued : i.k = "series"
        /\ db.ent["movie"] = {} /\ db.ent["series"] = {}
        /\ db.rel["movie"] = {} /\ db.rel["series"] = {}

----------------------------------------------------------------------------
\* C38: a call of refreshVodContent for p writes no episode relation - the
\* episode relations of p all have a lastSeen before its scanStartTime -
\* and so the store its Cleanup commits holds none of the episode relations
\* p had when the cleanup began, which are those it had when the call
\* began, and no episode without a relation.
C38_EpisodesReaped ==
    /\ [] (\A p \in Providers :
             run[p].pc # "idle" =>
                 \A r \in RelsOf(db, "episode", p) :
                     r.lastSeen < run[p].scanStartTime)
    /\ [][ \A p \in Providers :
             CleanupCommits(p) =>
                 /\ RelsOf(db', "episode", p) = {}
                 /\ Orphans(db')["episode"] = {}
                 /\ \A q \in Providers \ {p} :
                      RelsOf(db', "episode", q)
                          = RelsOf(run[p].mark, "episode", q) ]_vars

\* A call whose movies and series phases committed a movie and a series
\* has committed its cleanup: the episode relation p had is deleted, and the
\* episode with it, while the movie and series relations of the call stay.
C38_Witness ==
    \E p \in Providers :
        /\ AllCommitted(p)
        /\ RelsOf(run[p].mark, "episode", p) # {}
        /\ RelsOf(db, "episode", p) = {}
        /\ run[p].mark.ent["episode"] # {}
        /\ db.ent["episode"] = {}
        /\ RelsOf(db, "movie", p) # {}
        /\ RelsOf(db, "series", p) # {}

----------------------------------------------------------------------------
\* The listing of kind k that the call of p fetched was not a list: the
\* fetch returned and the phase opened no transaction.
NotAList(p, k) ==
    /\ Logged(p, Ev(k, "fetch", "ok"))
    /\ ~Has(p, k, "begin")
    /\ ~(run[p].pc = "begin" /\ run[p].kind = k)

\* The step is the return of a fetch of p with a value that is not a list.
SkipsPhase(p) ==
    /\ run[p].pc = "fetch"
    /\ run'[p].pc \in {"fetch", "clBegin"}

\* C39: a movies or series fetch that returns a value that is not a list
\* opens no transaction, writes nothing, sends no error status and takes
\* the call to the next phase - the series fetch after the movies, the
\* cleanup after the series; in the cleanup of that call every relation of
\* that kind the provider has is stale, and the store the cleanup commits
\* holds none of them.
C39_NonListSkipsPhase ==
    /\ [][ \A p \in Providers :
             SkipsPhase(p) =>
                 /\ db' = db /\ tx' = tx /\ ~tx.active
                 /\ run'[p].log = run[p].log \o
                        <<Status(run[p].kind, "info"),
                          Ev(run[p].kind, "fetch", "ok")>>
                 /\ run'[p].pc = IF run[p].kind = "movie"
                                 THEN "fetch" ELSE "clBegin"
                 /\ run'[p].kind = IF run[p].kind = "movie"
                                   THEN "series" ELSE "none" ]_vars
    /\ [] (\A p \in Providers : \A k \in Kinds :
             (NotAList(p, k) /\ run[p].pc \in {"clBegin", "clStmt", "clCommit"})
                 => \A r \in RelsOf(db, k, p) :
                        r.lastSeen < run[p].scanStartTime)
    /\ [][ \A p \in Providers : \A k \in Kinds :
             (NotAList(p, k) /\ CleanupCommits(p))
                 => RelsOf(db', k, p) = {} ]_vars

\* A call whose movies fetch returned a value that is not a list has ended
\* without an error status: the movie relation an earlier call of p had
\* stored was deleted by the cleanup, and the movie with it.
C39_Witness ==
    \E p \in Providers :
        /\ run[p].pc = "done"
        /\ NotAList(p, "movie")
        /\ \A i \in 1..Len(run[p].log) : run[p].log[i].arg # "error"
        /\ Logged(p, Ev("cleanup", "commit", "ok"))
        /\ RelsOf(run[p].mark, "movie", p) # {}
        /\ RelsOf(db, "movie", p) = {}
        /\ db.ent["movie"] = {}

====
